---- MODULE Spec2Model ----
(***************************************************************************)
(* The batched MRI exporter (src/MriExporter): the four-level walk         *)
(* patient -> study -> series -> image, surrogate keys, the two dedup      *)
(* registries and the batched CSV writer.                                  *)
(*                                                                         *)
(* Text that the code parses (folder names, file names, DICOM values) is a *)
(* sequence of one-character strings; a CSV cell is a string (Str of the   *)
(* text, or ToString of an integer).  A dict is an ordered sequence of     *)
(* <<key, value>> pairs.  A CSV file is the sequence of its lines, each    *)
(* line the sequence of its cells.                                         *)
(***************************************************************************)
EXTENDS Integers, Sequences, FiniteSets, TLC

VARIABLES
    config,     \* the Config flags of this run
    ex,         \* the DataExporter object (its fields, by name)
    fs,         \* the output directory: file name -> [exists, lines]
    pc,         \* position of export(): "loop", "batch", "rest", "final", "done"
    tree,       \* the patient folders under BASE_DIR listed so far (positions in PatientShapes)
    written,    \* history: per table, the batch list of each _write_batch call so far
    idx,        \* how many patient folders the loop of export() has taken in this run
    run,        \* 1 for the first export run over the tree, 2 for the rerun
    fs1,        \* the output directory as the first run left it
    arg,        \* the name handed to a parser called on its own
    ret         \* what that call returned: [fn, val]; fn is "none" before the call

vars == <<config, ex, fs, pc, tree, idx, written, run, fs1, arg, ret>>

(***************************************************************************)
(* Bounds of the exploration.                                              *)
(***************************************************************************)
MaxPatients == 3
MaxBatchSize == 2

(***************************************************************************)
(* Text helpers.                                                           *)
(***************************************************************************)
Digits == {"0", "1", "2", "3", "4", "5", "6", "7", "8", "9"}

DigitVal(c) ==
    CASE c = "0" -> 0 [] c = "1" -> 1 [] c = "2" -> 2 [] c = "3" -> 3
      [] c = "4" -> 4 [] c = "5" -> 5 [] c = "6" -> 6 [] c = "7" -> 7
      [] c = "8" -> 8 [] c = "9" -> 9

\* str(text): the cell a text is written as
RECURSIVE Str(_)
Str(s) ==
    IF s = <<>> THEN ""
    ELSE IF Len(s) = 1 THEN s[1]
    ELSE Str(SubSeq(s, 1, Len(s) \div 2)) \o Str(SubSeq(s, Len(s) \div 2 + 1, Len(s)))

IsDigits(s) == \A i \in 1..Len(s) : s[i] \in Digits

\* int(s) for a non-empty run of digits
RECURSIVE IntOf(_)
IntOf(s) ==
    IF s = <<>> THEN 0
    ELSE IntOf(SubSeq(s, 1, Len(s) - 1)) * 10 + DigitVal(s[Len(s)])

\* s.lstrip("0")
RECURSIVE LStrip0(_)
LStrip0(s) == IF s # <<>> /\ s[1] = "0" THEN LStrip0(Tail(s)) ELSE s

\* int(s.lstrip("0") or "0")
StripInt(s) == IF LStrip0(s) = <<>> THEN 0 ELSE IntOf(LStrip0(s))

\* s.split(sep): the pieces between the occurrences of the character sep
RECURSIVE Split(_, _)
Split(s, sep) ==
    IF \A i \in 1..Len(s) : s[i] # sep THEN <<s>>
    ELSE LET k == CHOOSE i \in 1..Len(s) : s[i] = sep /\ \A j \in 1..(i - 1) : s[j] # sep
         IN  <<SubSeq(s, 1, k - 1)>> \o Split(SubSeq(s, k + 1, Len(s)), sep)

\* sep.join(parts)
RECURSIVE Join(_, _)
Join(parts, sep) ==
    IF parts = <<>> THEN <<>>
    ELSE IF Len(parts) = 1 THEN parts[1]
    ELSE parts[1] \o <<sep>> \o Join(Tail(parts), sep)

\* position of the last occurrence of character c in s, 0 if none
LastIndexOf(s, c) ==
    IF \E i \in 1..Len(s) : s[i] = c
    THEN CHOOSE i \in 1..Len(s) : s[i] = c /\ \A j \in (i + 1)..Len(s) : s[j] # c
    ELSE 0

\* c.lower() for the letters the model uses in file extensions
Lower(c) ==
    CASE c = "I" -> "i" [] c = "M" -> "m" [] c = "A" -> "a" [] OTHER -> c

\* s.lower().endswith(".ima")
EndsWithIma(s) ==
    /\ Len(s) >= 4
    /\ s[Len(s) - 3] = "."
    /\ Lower(s[Len(s) - 2]) = "i"
    /\ Lower(s[Len(s) - 1]) = "m"
    /\ Lower(s[Len(s)]) = "a"

\* s.replace(old, new): every non-overlapping occurrence, left to right
Occurs(s, old, i) == i + Len(old) - 1 <= Len(s) /\ SubSeq(s, i, i + Len(old) - 1) = old

RECURSIVE Replace(_, _, _)
Replace(s, old, new) ==
    IF \A i \in 1..Len(s) : ~Occurs(s, old, i) THEN s
    ELSE LET k == CHOOSE i \in 1..Len(s) :
                      Occurs(s, old, i) /\ \A j \in 1..(i - 1) : ~Occurs(s, old, j)
         IN  SubSeq(s, 1, k - 1) \o new
                 \o Replace(SubSeq(s, k + Len(old), Len(s)), old, new)

(***************************************************************************)
(* Ordered dicts: sequences of <<key, value>>.                             *)
(***************************************************************************)
Keys(d) == [i \in 1..Len(d) |-> d[i][1]]

HasKey(d, k) == \E i \in 1..Len(d) : d[i][1] = k

\* d.get(k, default)
Get(d, k, default) ==
    IF HasKey(d, k) THEN d[CHOOSE i \in 1..Len(d) : d[i][1] = k][2] ELSE default

\* d[k] = v: replaces the value in place, or appends the key
Put(d, k, v) ==
    IF HasKey(d, k)
    THEN [i \in 1..Len(d) |-> IF d[i][1] = k THEN <<k, v>> ELSE d[i]]
    ELSE Append(d, <<k, v>>)

\* d.update(e)
RECURSIVE Update(_, _)
Update(d, e) == IF e = <<>> THEN d ELSE Update(Put(d, e[1][1], e[1][2]), Tail(e))

InSeq(x, s) == \E i \in 1..Len(s) : s[i] = x

(***************************************************************************)
(* datetime.strptime and datetime.isoformat, for the three formats the     *)
(* code uses.  A format is the sequence of its directives; each directive  *)
(* matches a run of digits, trying the run lengths in the order of the     *)
(* alternatives of the library's pattern, with backtracking; the whole     *)
(* text must be consumed.                                                  *)
(***************************************************************************)
FmtMicro == <<"Y", "m", "d", "H", "M", "S", "f">>
FmtSeconds == <<"Y", "m", "d", "H", "M", "S">>
FmtDate == <<"Y", "m", "d">>

FieldLens(f) ==
    CASE f = "Y" -> <<4>>
      [] f = "f" -> <<6, 5, 4, 3, 2, 1>>
      [] OTHER -> <<2, 1>>

FieldOk(f, t) ==
    CASE f = "Y" -> TRUE
      [] f = "m" -> IF Len(t) = 2 THEN IntOf(t) \in 1..12 ELSE IntOf(t) \in 1..9
      [] f = "d" -> IF Len(t) = 2 THEN IntOf(t) \in 1..31 ELSE IntOf(t) \in 1..9
      [] f = "H" -> IF Len(t) = 2 THEN IntOf(t) \in 0..23 ELSE TRUE
      [] f = "M" -> IF Len(t) = 2 THEN IntOf(t) \in 0..59 ELSE TRUE
      [] f = "S" -> IF Len(t) = 2 THEN IntOf(t) \in 0..61 ELSE TRUE
      [] f = "f" -> TRUE

\* <<>> when the text does not match, else <<runs>>, one digit run per directive
RECURSIVE StrpMatch(_, _)
RECURSIVE StrpTry(_, _, _)
RECURSIVE StrpPick(_, _, _, _)
StrpMatch(fmt, s) ==
    IF fmt = <<>> THEN (IF s = <<>> THEN << <<>> >> ELSE <<>>)
    ELSE StrpTry(fmt, s, FieldLens(fmt[1]))

\* rest is the match of the later directives after a run of lens[1] digits
StrpPick(fmt, s, lens, rest) ==
    IF rest # <<>> THEN << <<SubSeq(s, 1, lens[1])>> \o rest[1] >>
    ELSE StrpTry(fmt, s, Tail(lens))

StrpTry(fmt, s, lens) ==
    IF lens = <<>> THEN <<>>
    ELSE StrpPick(fmt, s, lens,
                  IF /\ lens[1] <= Len(s)
                     /\ IsDigits(SubSeq(s, 1, lens[1]))
                     /\ FieldOk(fmt[1], SubSeq(s, 1, lens[1]))
                  THEN StrpMatch(Tail(fmt), SubSeq(s, lens[1] + 1, Len(s)))
                  ELSE <<>>)

IsLeap(y) == (y % 4 = 0 /\ y % 100 # 0) \/ y % 400 = 0

DaysIn(y, m) ==
    IF m = 2 THEN (IF IsLeap(y) THEN 29 ELSE 28)
    ELSE IF m \in {4, 6, 9, 11} THEN 30 ELSE 31

Pad2(t) == IF Len(t) = 1 THEN <<"0">> \o t ELSE t

RECURSIVE PadRight6(_)
PadRight6(t) == IF Len(t) >= 6 THEN t ELSE PadRight6(Append(t, "0"))

\* the datetime of a match m of StrpMatch, as isoformat() renders it
IsoOfMatch(m) ==
    IF m = <<>> THEN [ok |-> FALSE, iso |-> <<>>]
    ELSE LET r == m[1]
             y == IntOf(r[1])
             mo == IntOf(r[2])
             d == IntOf(r[3])
             hasTime == Len(r) >= 6
             sec == IF hasTime THEN IntOf(r[6]) ELSE 0
             micro == IF Len(r) >= 7 THEN PadRight6(r[7]) ELSE <<>>
             valid == y >= 1 /\ d <= DaysIn(y, mo) /\ sec <= 59
             hms == IF hasTime
                    THEN Pad2(r[4]) \o <<":">> \o Pad2(r[5]) \o <<":">> \o Pad2(r[6])
                    ELSE <<"0", "0", ":", "0", "0", ":", "0", "0">>
             frac == IF micro # <<>> /\ IntOf(micro) # 0 THEN <<".">> \o micro ELSE <<>>
         IN  IF valid
             THEN [ok |-> TRUE,
                   iso |-> r[1] \o <<"-">> \o Pad2(r[2]) \o <<"-">> \o Pad2(r[3])
                           \o <<"T">> \o hms \o frac]
             ELSE [ok |-> FALSE, iso |-> <<>>]

\* datetime.strptime(s, fmt).isoformat(): [ok, iso]; ok is FALSE where strptime raises
strptime_iso(s, fmt) == IsoOfMatch(StrpMatch(fmt, s))

(***************************************************************************)
(* Utils (src/MriExporter/utils.py).                                       *)
(***************************************************************************)
\* a date test that takes any run of eight or more digits
IsDate8OrLonger(p) == Len(p) >= 8 /\ IsDigits(p)

\* re.fullmatch(r"\d{8}", p)
IsDate8(p) == Len(p) = 8 /\ IsDigits(p)

\* the first of the three parses that succeeds, "" when none does
FirstParsed(t1, t2, t3) ==
    IF t1.ok THEN t1.iso ELSE IF t2.ok THEN t2.iso ELSE IF t3.ok THEN t3.iso ELSE <<>>

\* date_idx is the 1-based position of the date token in parts
StudyNameFields(parts, date_idx) ==
    LET raw_date == parts[date_idx]
        raw_time == IF date_idx + 1 <= Len(parts) THEN parts[date_idx + 1] ELSE <<>>
        raw_uid == IF date_idx + 2 <= Len(parts) THEN parts[date_idx + 2] ELSE <<>>
    IN  [region |-> parts[1],
         protocol |-> IF date_idx > 2 THEN Join(SubSeq(parts, 2, date_idx - 1), "_")
                      ELSE <<>>,
         timestamp |-> FirstParsed(strptime_iso(raw_date \o raw_time \o raw_uid, FmtMicro),
                                   strptime_iso(raw_date \o raw_time, FmtSeconds),
                                   strptime_iso(raw_date, FmtDate))]

ParseStudyParts(parts) ==
    IF \E i \in 1..Len(parts) : IsDate8(parts[i])
    THEN StudyNameFields(parts,
                         CHOOSE i \in 1..Len(parts) :
                             IsDate8(parts[i]) /\ \A j \in 1..(i - 1) : ~IsDate8(parts[j]))
    ELSE [region |-> parts[1], protocol |-> <<>>, timestamp |-> <<>>]

parse_study_folder_name(folder_name) == ParseStudyParts(Split(folder_name, "_"))

\* a series parser that splits at the first "_" (split("_", 1))
parse_series_folder_name_first_sep(folder_name) ==
    LET k == IF \E i \in 1..Len(folder_name) : folder_name[i] = "_"
             THEN CHOOSE i \in 1..Len(folder_name) :
                      folder_name[i] = "_" /\ \A j \in 1..(i - 1) : folder_name[j] # "_"
             ELSE 0
        head == SubSeq(folder_name, 1, k - 1)
        tail == SubSeq(folder_name, k + 1, Len(folder_name))
    IN  IF k # 0 /\ tail # <<>> /\ IsDigits(tail)
        THEN [desc |-> head, num |-> StripInt(tail)]
        ELSE [desc |-> folder_name, num |-> 0]

parse_series_folder_name(folder_name) ==
    LET k == LastIndexOf(folder_name, "_")
        head == SubSeq(folder_name, 1, k - 1)
        tail == SubSeq(folder_name, k + 1, Len(folder_name))
    IN  IF k # 0 /\ tail # <<>> /\ IsDigits(tail)
        THEN [desc |-> head, num |-> StripInt(tail)]
        ELSE [desc |-> folder_name, num |-> 0]

\* os.path.splitext(filename)[0]: up to the last dot, unless only dots precede it
SplitextRoot(filename) ==
    LET k == LastIndexOf(filename, ".")
    IN  IF k # 0 /\ \E j \in 1..(k - 1) : filename[j] # "."
        THEN SubSeq(filename, 1, k - 1)
        ELSE filename

\* the last digit of s alone; <<>> when s has no digit
LastDigitOnly(s) ==
    IF \A i \in 1..Len(s) : s[i] \notin Digits THEN <<>>
    ELSE LET e == CHOOSE i \in 1..Len(s) :
                      s[i] \in Digits /\ \A j \in (i + 1)..Len(s) : s[j] \notin Digits
         IN  <<s[e]>>

\* the last maximal run of digits of s; <<>> when s has no digit
LastDigitRun(s) ==
    IF \A i \in 1..Len(s) : s[i] \notin Digits THEN <<>>
    ELSE LET e == CHOOSE i \in 1..Len(s) :
                      s[i] \in Digits /\ \A j \in (i + 1)..Len(s) : s[j] \notin Digits
             b == CHOOSE i \in 1..e :
                      /\ \A j \in i..e : s[j] \in Digits
                      /\ (i = 1 \/ s[i - 1] \notin Digits)
         IN  SubSeq(s, b, e)

\* Optional[int]: some is FALSE for None
parse_image_instance_number(filename) ==
    LET g == LastDigitRun(SplitextRoot(filename))
    IN  IF g # <<>> THEN [some |-> TRUE, val |-> StripInt(g)]
        ELSE [some |-> FALSE, val |-> 0]

\* the first maximal run of digits of s (re.search(r'(\d+)', s)); <<>> when none
FirstDigitRun(s) ==
    IF \A i \in 1..Len(s) : s[i] \notin Digits THEN <<>>
    ELSE LET b == CHOOSE i \in 1..Len(s) :
                      s[i] \in Digits /\ \A j \in 1..(i - 1) : s[j] \notin Digits
             e == CHOOSE i \in b..Len(s) :
                      /\ \A j \in b..i : s[j] \in Digits
                      /\ (i = Len(s) \/ s[i + 1] \notin Digits)
         IN  SubSeq(s, b, e)

\* an age parser that gives "0" where no digit is found
parse_patient_age_or_zero(age_str) ==
    IF FirstDigitRun(age_str) # <<>> THEN ToString(IntOf(FirstDigitRun(age_str)))
    ELSE "0"

parse_patient_age(age_str) ==
    IF age_str = <<>> THEN ""
    ELSE IF FirstDigitRun(age_str) # <<>> THEN ToString(IntOf(FirstDigitRun(age_str)))
    ELSE ""

\* for the values the model's datasets hold (no surrounding blanks, upper case)
parse_yes_no_to_boolean(value) ==
    IF value = <<>> THEN ""
    ELSE IF value = <<"Y", "E", "S">> THEN "true"
    ELSE IF value = <<"N", "O">> THEN "false"
    ELSE Str(value)

\* hashlib.md5(combined).hexdigest()[:16], taken as injective on the joined text:
\* the digest of a text is the tagged text itself
md5_16(combined) == <<"md5", Str(combined)>>

generate_hash_id(args) == md5_16(Join(args, "|"))

(***************************************************************************)
(* Config and DicomMappings (src/MriExporter/config.py).                   *)
(***************************************************************************)
BASE_URL == <<"http://localhost:8000/">>
IMAGE_FORMAT == <<"p", "n", "g">>

PATIENT_CSV == "Patient.csv"
STUDY_CSV == "Study.csv"
SERIES_CSV == "Series.csv"
IMAGE_CSV == "Image.csv"
EQUIPMENT_CSV == "Equipment.csv"
IMAGING_PARAMS_CSV == "ImagingParameters.csv"
REL_HAS_STUDY_CSV == "rel_HAS_STUDY.csv"
REL_CONTAINS_SERIES_CSV == "rel_CONTAINS_SERIES.csv"
REL_CONTAINS_IMAGE_CSV == "rel_CONTAINS_IMAGE.csv"
REL_HAS_PARAMETERS_CSV == "rel_HAS_PARAMETERS.csv"
REL_PERFORMED_ON_CSV == "rel_PERFORMED_ON.csv"

BatchFiles ==
    {PATIENT_CSV, STUDY_CSV, SERIES_CSV, IMAGE_CSV, REL_HAS_STUDY_CSV,
     REL_CONTAINS_SERIES_CSV, REL_CONTAINS_IMAGE_CSV, REL_HAS_PARAMETERS_CSV,
     REL_PERFORMED_ON_CSV}

OutFiles == BatchFiles \cup {EQUIPMENT_CSV, IMAGING_PARAMS_CSV}

\* the settings of the Config flags the model explores
Configs ==
    {[GENERATE_EMBEDDINGS |-> FALSE, EXPORT_IMAGES |-> FALSE, NOTES_FILE |-> "notes"],
     [GENERATE_EMBEDDINGS |-> TRUE, EXPORT_IMAGES |-> TRUE, NOTES_FILE |-> "notes"],
     [GENERATE_EMBEDDINGS |-> FALSE, EXPORT_IMAGES |-> FALSE, NOTES_FILE |-> "missing"]}

PATIENT_ATTRS ==
    <<"PatientID", "PatientSex", "PatientAge", "PatientWeight", "PatientSize",
      "PatientBirthDate", "PatientIdentityRemoved", "DeidentificationMethod">>

STUDY_ATTRS ==
    <<"StudyInstanceUID", "StudyDate", "StudyTime", "StudyDescription",
      "AccessionNumber", "InstitutionName", "ReferringPhysicianName">>

SERIES_ATTRS ==
    <<"SeriesInstanceUID", "SeriesNumber", "SeriesDate", "SeriesTime",
      "SeriesDescription", "Modality", "BodyPartExamined">>

EQUIPMENT_ATTRS ==
    <<"Manufacturer", "ManufacturerModelName", "SoftwareVersions",
      "MagneticFieldStrength", "InstitutionName">>

IMAGING_PARAM_ATTRS ==
    <<"ScanningSequence", "SequenceVariant", "SequenceName",
      "MRAcquisitionType", "SliceThickness", "RepetitionTime",
      "EchoTime", "FlipAngle", "MagneticFieldStrength", "ImagingFrequency">>

Range(s) == {s[i] : i \in 1..Len(s)}

EXCLUDED_FROM_IMAGE ==
    Range(PATIENT_ATTRS) \cup Range(STUDY_ATTRS) \cup Range(SERIES_ATTRS)
        \cup Range(EQUIPMENT_ATTRS) \cup Range(IMAGING_PARAM_ATTRS)

(***************************************************************************)
(* DicomExtractor (src/MriExporter/dicom_reader.py).  A dataset is the     *)
(* sequence of its elements <<keyword, value>> in tag order.               *)
(***************************************************************************)
\* Utils.get_dicom_attr: the value of the element, "" when the dataset has none
get_dicom_attr(ds, keyword) == Get(ds, keyword, <<>>)

\* pydicom.dcmread inside try/except: [ok, ds]; ok is FALSE for the None result
read_dicom(file) == [ok |-> file.ok, ds |-> IF file.ok THEN file.ds ELSE <<>>]

extract_attributes(ds, attr_list) ==
    [i \in 1..Len(attr_list) |-> <<attr_list[i], get_dicom_attr(ds, attr_list[i])>>]

\* the datasets of the model hold no reference sequence (0008,1155)
RECURSIVE extract_all_image_attributes(_)
extract_all_image_attributes(ds) ==
    IF ds = <<>> THEN <<>>
    ELSE LET keyword == ds[1][1]
             rest == extract_all_image_attributes(Tail(ds))
         IN  IF keyword = "" \/ keyword \in EXCLUDED_FROM_IMAGE \/ keyword = "PixelData"
             THEN rest
             ELSE << <<keyword, Str(ds[1][2])>> >> \o rest

(***************************************************************************)
(* The input tree under BASE_DIR.  A folder lists its entries in lexical   *)
(* order of their names (what sorted() yields); `first` is the position of *)
(* the entry through which os.walk, in the order the file system lists     *)
(* entries, reaches its first .ima file (0 when the folder holds none).    *)
(***************************************************************************)
File(name, ok, ds) == [kind |-> "file", name |-> name, ok |-> ok, ds |-> ds]

Dir(name, children, first) ==
    [kind |-> "dir", name |-> name, children |-> children, first |-> first]

IsDir(n) == n.kind = "dir"

NoFile == File(<<>>, FALSE, <<>>)

\* Optional[path]: [found, file]
RECURSIVE find_first_ima(_)
find_first_ima(root) ==
    IF root.first = 0 THEN [found |-> FALSE, file |-> NoFile]
    ELSE LET c == root.children[root.first]
         IN  IF IsDir(c) THEN find_first_ima(c) ELSE [found |-> TRUE, file |-> c]

\* whether some .ima file lies under the folder
RECURSIVE HasIma(_)
HasIma(n) ==
    IF IsDir(n) THEN \E i \in 1..Len(n.children) : HasIma(n.children[i])
    ELSE EndsWithIma(n.name)

\* the positions `first` may take: a .ima file of the folder itself if it has one
\* (os.walk yields a folder's files before it descends), else any subfolder with one
FirstChoices(children) ==
    LET files == {i \in 1..Len(children) :
                      ~IsDir(children[i]) /\ EndsWithIma(children[i].name)}
        dirs == {i \in 1..Len(children) : IsDir(children[i]) /\ HasIma(children[i])}
    IN  IF files # {} THEN files ELSE IF dirs # {} THEN dirs ELSE {0}

RECURSIVE WellFormed(_)
WellFormed(n) ==
    IsDir(n) =>
        /\ n.first \in FirstChoices(n.children)
        /\ \A i \in 1..Len(n.children) : WellFormed(n.children[i])

\* the folder with every `first` forgotten: what two listings of one tree share
RECURSIVE Content(_)
Content(n) ==
    IF IsDir(n)
    THEN [kind |-> "dir", name |-> n.name,
          children |-> [i \in 1..Len(n.children) |-> Content(n.children[i])]]
    ELSE n

\* the folder as a listing in lexical order would walk it
RECURSIVE Lexical(_)
Lexical(n) ==
    IF IsDir(n)
    THEN LET cs == [i \in 1..Len(n.children) |-> Lexical(n.children[i])]
             ch == FirstChoices(cs)
         IN  Dir(n.name, cs, CHOOSE i \in ch : \A j \in ch : i <= j)
    ELSE n

(***************************************************************************)
(* The folders and files the exploration draws from.                       *)
(***************************************************************************)
\* three readable headers: dsA and dsB differ in their Equipment fields and in
\* their ImagingParameters fields but agree on the fields joined with "|";
\* dsC is another scanner, has no StudyDate, and has one more image field
dsA ==
    << <<"Manufacturer", <<"S", "|", "V">>>>,
       <<"ManufacturerModelName", <<"M">>>>,
       <<"InstitutionName", <<"H", "1">>>>,
       <<"StudyDate", <<"2", "0", "1", "6", "0", "3", "0", "9">>>>,
       <<"StudyTime", <<"0", "9", "1", "6", "2", "9", ".", "2", "4", "0", "0", "0", "0">>>>,
       <<"PatientAge", <<"0", "5", "3", "Y">>>>,
       <<"PatientSex", <<"F">>>>,
       <<"ScanningSequence", <<"S", "E">>>>,
       <<"SequenceVariant", <<"S", "K", "|", "S", "P">>>>,
       <<"A", <<"a">>>> >>

dsB ==
    << <<"Manufacturer", <<"S">>>>,
       <<"ManufacturerModelName", <<"V", "|", "M">>>>,
       <<"InstitutionName", <<"H", "2">>>>,
       <<"StudyDate", <<"2", "0", "1", "6", "0", "3", "0", "9">>>>,
       <<"SeriesDate", <<"2", "0", "1", "6", "0", "3", "0", "9">>>>,
       <<"ScanningSequence", <<"S", "E", "|", "S", "K">>>>,
       <<"SequenceVariant", <<"S", "P">>>>,
       <<"B", <<"b">>>> >>

dsC ==
    << <<"Manufacturer", <<"G">>>>,
       <<"ManufacturerModelName", <<"M">>>>,
       <<"InstitutionName", <<"H", "2">>>>,
       <<"ScanningSequence", <<"G", "R">>>>,
       <<"A", <<"a">>>>,
       <<"C", <<"c">>>> >>

StudyName1 == <<"L", "-", "S", "P", "I", "N", "E", "_", "L", "S", "S", "_", "2", "0", "1", "6", "0", "3", "0", "9", "_", "0", "9", "1", "6", "2", "9", "_", "2", "4", "0", "0", "0", "0">>
StudyName2 == <<"N", "O", "T", "A", "G", "O", "O", "D", "N", "A", "M", "E">>
SeriesName1 == <<"A", "B", "C">>
SeriesName2 == <<"T", "2", "_", "T", "S", "E", "_", "T", "R", "A", "_", "3", "8", "4", "_", "0", "0", "0", "4">>
FileName1 == <<"L", "_", "0", "5", "7", "0", "_", "0", "0", "8", ".", "i", "m", "a">>
FileName2 == <<"L", "_", "0", "5", "7", "0", "_", "0", "0", "9", ".", "I", "M", "A">>

\* a study folder with one series folder holding the files fs
Study1(name, files, first) ==
    Dir(name, <<Dir(SeriesName1, files, first)>>, IF first = 0 THEN 0 ELSE 1)

\* the contents of a patient folder: [children, first]
PatientShapes ==
    << \* 1: an empty patient folder
       [children |-> <<>>, first |-> 0],
       \* 2-4: one study, one series, one readable image
       [children |-> <<Study1(StudyName1, <<File(FileName1, TRUE, dsA)>>, 1)>>,
        first |-> 1],
       [children |-> <<Study1(StudyName1, <<File(FileName1, TRUE, dsB)>>, 1)>>,
        first |-> 1],
       [children |-> <<Study1(StudyName1, <<File(FileName1, TRUE, dsC)>>, 1)>>,
        first |-> 1],
       \* 5, 6: two images with different headers; the file system lists either first
       [children |-> <<Study1(StudyName1, <<File(FileName1, TRUE, dsA),
                                             File(FileName2, TRUE, dsB)>>, 1)>>,
        first |-> 1],
       [children |-> <<Study1(StudyName1, <<File(FileName1, TRUE, dsA),
                                             File(FileName2, TRUE, dsB)>>, 2)>>,
        first |-> 1],
       \* 7: a study folder with no leaf file, then a sibling study
       [children |-> <<Dir(StudyName1, <<>>, 0),
                       Study1(StudyName2, <<File(FileName1, TRUE, dsA)>>, 1)>>,
        first |-> 2],
       \* 8: a study whose only file is unreadable, then a sibling study
       [children |-> <<Study1(StudyName1, <<File(FileName1, FALSE, <<>>)>>, 1),
                       Study1(StudyName2, <<File(FileName1, TRUE, dsB)>>, 1)>>,
        first |-> 1],
       \* 9: a series folder with no leaf file, then a sibling series
       [children |-> <<Dir(StudyName1,
                           <<Dir(SeriesName1, <<>>, 0),
                             Dir(SeriesName2, <<File(FileName1, TRUE, dsA)>>, 1)>>, 2)>>,
        first |-> 1],
       \* 10, 11: a series whose only file is unreadable, then a sibling series;
       \* the file system lists either series folder first
       [children |-> <<Dir(StudyName1,
                           <<Dir(SeriesName1, <<File(FileName1, FALSE, <<>>)>>, 1),
                             Dir(SeriesName2, <<File(FileName1, TRUE, dsB)>>, 1)>>, 2)>>,
        first |-> 1],
       [children |-> <<Dir(StudyName1,
                           <<Dir(SeriesName1, <<File(FileName1, FALSE, <<>>)>>, 1),
                             Dir(SeriesName2, <<File(FileName1, TRUE, dsB)>>, 1)>>, 1)>>,
        first |-> 1],
       \* 12: a study folder holding a .ima file and no series folder
       [children |-> <<Dir(StudyName1, <<File(FileName1, TRUE, dsC)>>, 1)>>,
        first |-> 1] >>

NumShapes == Len(PatientShapes)

\* the name of the i-th patient folder in lexical order: "0001", "0002", ...
PatientFolderName(i) == <<"0", "0", "0", ToString(i)>>

PatientFolder(i, k) ==
    Dir(PatientFolderName(i), PatientShapes[k].children, PatientShapes[k].first)

\* the shapes that are listings of the same folder contents as shape k
Listings ==
    [k \in 1..NumShapes |->
        {j \in 1..NumShapes :
            Content(PatientFolder(1, j)) = Content(PatientFolder(1, k))}]

(***************************************************************************)
(* DataExporter (src/MriExporter/exporter.py).  Every method is an         *)
(* operator from the object (and the output directory, for the writers) to *)
(* the object after the call.  Row values are kept as the cells csv writes *)
(* for them: str(int) for an integer.                                      *)
(***************************************************************************)
\* the notes file as read by pandas: the model's file has a note for patient "1"
NotesFile == << <<"1", "note-1">> >>

\* {} when pd.read_csv or the column lookup raises: the file is missing or malformed
_load_clinical_notes(cfg) == IF cfg.NOTES_FILE = "notes" THEN NotesFile ELSE <<>>

\* DataExporter.__init__
NewExporter(cfg, batch_size) ==
    [batch_size |-> batch_size,
     study_id_counter |-> 1,
     series_id_counter |-> 1,
     image_id_counter |-> 1,
     equipment_id_counter |-> 1,
     param_id_counter |-> 1,
     patients |-> <<>>,
     studies |-> <<>>,
     series_list |-> <<>>,
     images |-> <<>>,
     equipment_map |-> <<>>,
     param_map |-> <<>>,
     rel_has_study |-> <<>>,
     rel_contains_series |-> <<>>,
     rel_contains_image |-> <<>>,
     rel_has_parameters |-> <<>>,
     rel_performed_on |-> <<>>,
     clinical_notes |-> _load_clinical_notes(cfg),
     first_write |-> TRUE,
     patient_count |-> 0]

\* the values of an attribute dict as cells
Cells(attrs) == [i \in 1..Len(attrs) |-> <<attrs[i][1], Str(attrs[i][2])>>]

\* the values of a dict, in order
Values(d) == [i \in 1..Len(d) |-> d[i][2]]

\* a registry in which the attributes of the record seen last are stored
_get_or_create_equipment_last_seen(e, ds) ==
    LET attrs == extract_attributes(ds, EQUIPMENT_ATTRS)
        eq_hash == generate_hash_id(<<Get(attrs, "Manufacturer", <<>>),
                                      Get(attrs, "ManufacturerModelName", <<>>),
                                      Get(attrs, "SoftwareVersions", <<>>),
                                      Get(attrs, "MagneticFieldStrength", <<>>)>>)
        eq_id == IF HasKey(e.equipment_map, eq_hash)
                 THEN Get(Get(e.equipment_map, eq_hash, <<>>), "EquipmentId", "")
                 ELSE ToString(e.equipment_id_counter)
    IN  [ex |-> [e EXCEPT
                   !.equipment_id_counter =
                       IF HasKey(e.equipment_map, eq_hash) THEN @ ELSE @ + 1,
                   !.equipment_map =
                       Put(@, eq_hash, << <<"EquipmentId", eq_id>> >> \o Cells(attrs))],
         id |-> eq_id]

\* returns [ex, id]; equipment_map is a dict hash -> row, kept in insertion order
_get_or_create_equipment(e, ds) ==
    LET attrs == extract_attributes(ds, EQUIPMENT_ATTRS)
        eq_hash == generate_hash_id(<<Get(attrs, "Manufacturer", <<>>),
                                      Get(attrs, "ManufacturerModelName", <<>>),
                                      Get(attrs, "SoftwareVersions", <<>>),
                                      Get(attrs, "MagneticFieldStrength", <<>>)>>)
    IN  IF HasKey(e.equipment_map, eq_hash)
        THEN [ex |-> e, id |-> Get(Get(e.equipment_map, eq_hash, <<>>), "EquipmentId", "")]
        ELSE LET eq_id == e.equipment_id_counter
             IN  [ex |-> [e EXCEPT
                            !.equipment_id_counter = @ + 1,
                            !.equipment_map =
                                Put(@, eq_hash,
                                    << <<"EquipmentId", ToString(eq_id)>> >> \o Cells(attrs))],
                  id |-> ToString(eq_id)]

\* a registry that takes a new ParameterID on a hit as well
_get_or_create_imaging_params_counting_hits(e, ds) ==
    LET attrs == extract_attributes(ds, IMAGING_PARAM_ATTRS)
        param_hash == generate_hash_id(Values(attrs))
    IN  IF HasKey(e.param_map, param_hash)
        THEN [ex |-> [e EXCEPT !.param_id_counter = @ + 1],
              id |-> Get(Get(e.param_map, param_hash, <<>>), "ParameterID", "")]
        ELSE [ex |-> [e EXCEPT
                        !.param_id_counter = @ + 1,
                        !.param_map =
                            Put(@, param_hash,
                                << <<"ParameterID", ToString(e.param_id_counter)>> >>
                                    \o Cells(attrs))],
              id |-> ToString(e.param_id_counter)]

_get_or_create_imaging_params(e, ds) ==
    LET attrs == extract_attributes(ds, IMAGING_PARAM_ATTRS)
        param_hash == generate_hash_id(Values(attrs))
    IN  IF HasKey(e.param_map, param_hash)
        THEN [ex |-> e, id |-> Get(Get(e.param_map, param_hash, <<>>), "ParameterID", "")]
        ELSE LET param_id == e.param_id_counter
             IN  [ex |-> [e EXCEPT
                            !.param_id_counter = @ + 1,
                            !.param_map =
                                Put(@, param_hash,
                                    << <<"ParameterID", ToString(param_id)>> >> \o Cells(attrs))],
                  id |-> ToString(param_id)]

\* ImaProcessor.process_ima: the external encoder's vector, as the cell csv writes
process_ima(file) == "[embedding]"

\* process_image without its CONTAINS_IMAGE row
process_image_unlinked(e, cfg, series_id, file, path) ==
    IF ~read_dicom(file).ok THEN e
    ELSE [e EXCEPT
            !.image_id_counter = @ + 1,
            !.images =
                Append(@, Update(<< <<"ImageId", ToString(e.image_id_counter)>>,
                                    <<"FilePath", Str(BASE_URL \o path \o file.name)>> >>,
                                 extract_all_image_attributes(read_dicom(file).ds)))]

\* path is the folder of the file relative to BASE_DIR, ending in "/"
process_image(e, cfg, series_id, file, path) ==
    LET r == read_dicom(file) IN
    IF ~r.ok THEN e
    ELSE LET instance_num == parse_image_instance_number(file.name)
             image_attrs == extract_all_image_attributes(r.ds)
             image_id == e.image_id_counter
             rel_path0 == path \o file.name
             rec1 == << <<"ImageId", ToString(image_id)>> >>
             rec2 == IF cfg.GENERATE_EMBEDDINGS
                     THEN Put(rec1, "EmbeddingVector", process_ima(file))
                     ELSE rec1
             rel_path == IF cfg.EXPORT_IMAGES
                         THEN Replace(rel_path0, <<".", "i", "m", "a">>,
                                      <<".">> \o IMAGE_FORMAT)
                         ELSE rel_path0
             rec3 == Put(rec2, "FilePath", Str(BASE_URL \o rel_path))
             image_record == Update(rec3, image_attrs)
         IN  [e EXCEPT
                !.image_id_counter = @ + 1,
                !.images = Append(@, image_record),
                !.rel_contains_image =
                    Append(@, << <<"SeriesId", series_id>>,
                                 <<"ImageId", ToString(image_id)>>,
                                 <<"InstanceNumber",
                                   ToString(IF instance_num.some THEN instance_num.val
                                            ELSE 0)>> >>)]

\* the loop of process_series with every file but the first put under series 1
RECURSIVE ImagesLoopRestUnderFirst(_, _, _, _, _, _)
ImagesLoopRestUnderFirst(e, cfg, series_id, files, path, i) ==
    IF i > Len(files) THEN e
    ELSE IF IsDir(files[i]) \/ ~EndsWithIma(files[i].name)
         THEN ImagesLoopRestUnderFirst(e, cfg, series_id, files, path, i + 1)
         ELSE ImagesLoopRestUnderFirst(process_image(e, cfg, IF i = 1 THEN series_id ELSE "1",
                                                     files[i], path),
                                       cfg, series_id, files, path, i + 1)

\* the loop over sorted(files) of process_series, from position i on; the series
\* folders of the model hold files only
RECURSIVE ImagesLoop(_, _, _, _, _, _)
ImagesLoop(e, cfg, series_id, files, path, i) ==
    IF i > Len(files) THEN e
    ELSE IF IsDir(files[i]) \/ ~EndsWithIma(files[i].name)
         THEN ImagesLoop(e, cfg, series_id, files, path, i + 1)
         ELSE ImagesLoop(process_image(e, cfg, series_id, files[i], path),
                         cfg, series_id, files, path, i + 1)

\* [ok, iso] of the date/time combination shared by process_study and process_series
ParseCombined(dt_str) ==
    strptime_iso(SubSeq(dt_str, 1, IF Len(dt_str) < 14 THEN Len(dt_str) ELSE 14),
                 IF Len(dt_str) >= 14 THEN FmtSeconds ELSE FmtDate)

\* a combination that leaves the time out
CombineDateOnly(date, time) == ParseCombined(date)

CombineDateTime(date, time) ==
    ParseCombined(IF time # <<>> THEN date \o Split(time, ".")[1] ELSE date)

\* a process_series that takes a SeriesId for a skipped folder as well
process_series_counting_skips(e, cfg, study_id, folder, path) ==
    LET parsed == parse_series_folder_name(folder.name)
        rep_ima == find_first_ima(folder)
        r == read_dicom(rep_ima.file)
    IN
    IF ~rep_ima.found THEN [e EXCEPT !.series_id_counter = @ + 1]
    ELSE IF ~r.ok THEN [e EXCEPT !.series_id_counter = @ + 1]
    ELSE LET series_attrs == extract_attributes(r.ds, SERIES_ATTRS)
             p == _get_or_create_imaging_params(e, r.ds)
             series_date == Get(series_attrs, "SeriesDate", <<>>)
             series_time == Get(series_attrs, "SeriesTime", <<>>)
             dt == CombineDateTime(series_date, series_time)
             series_datetime == IF series_date # <<>> /\ dt.ok THEN dt.iso ELSE <<>>
             series_id == p.ex.series_id_counter
             series_record ==
                 << <<"SeriesId", ToString(series_id)>>,
                    <<"SeriesInstanceUID", Str(Get(series_attrs, "SeriesInstanceUID", <<>>))>>,
                    <<"SeriesNumber", Str(Get(series_attrs, "SeriesNumber", <<>>))>>,
                    <<"SeriesDatetime", Str(series_datetime)>>,
                    <<"SeriesDescription", Str(Get(series_attrs, "SeriesDescription", <<>>))>>,
                    <<"SeriesType", Str(parsed.desc)>>,
                    <<"Modality", Str(Get(series_attrs, "Modality", <<>>))>>,
                    <<"BodyPartExamined", Str(Get(series_attrs, "BodyPartExamined", <<>>))>> >>
             e1 == [p.ex EXCEPT
                      !.series_id_counter = @ + 1,
                      !.series_list = Append(@, series_record),
                      !.rel_contains_series =
                          Append(@, << <<"StudyId", study_id>>,
                                       <<"SeriesId", ToString(series_id)>>,
                                       <<"SeriesNumber", ToString(parsed.num)>> >>),
                      !.rel_has_parameters =
                          Append(@, << <<"SeriesId", ToString(series_id)>>,
                                       <<"ParameterID", p.id>> >>)]
         IN  ImagesLoop(e1, cfg, ToString(series_id), folder.children,
                        path \o folder.name \o <<"/">>, 1)

process_series(e, cfg, study_id, folder, path) ==
    LET parsed == parse_series_folder_name(folder.name)
        rep_ima == find_first_ima(folder)
        r == read_dicom(rep_ima.file)
    IN
    IF ~rep_ima.found THEN e
    ELSE IF ~r.ok THEN e
    ELSE LET series_attrs == extract_attributes(r.ds, SERIES_ATTRS)
             p == _get_or_create_imaging_params(e, r.ds)
             series_date == Get(series_attrs, "SeriesDate", <<>>)
             series_time == Get(series_attrs, "SeriesTime", <<>>)
             dt == CombineDateTime(series_date, series_time)
             series_datetime == IF series_date # <<>> /\ dt.ok THEN dt.iso ELSE <<>>
             series_id == p.ex.series_id_counter
             series_record ==
                 << <<"SeriesId", ToString(series_id)>>,
                    <<"SeriesInstanceUID", Str(Get(series_attrs, "SeriesInstanceUID", <<>>))>>,
                    <<"SeriesNumber", Str(Get(series_attrs, "SeriesNumber", <<>>))>>,
                    <<"SeriesDatetime", Str(series_datetime)>>,
                    <<"SeriesDescription", Str(Get(series_attrs, "SeriesDescription", <<>>))>>,
                    <<"SeriesType", Str(parsed.desc)>>,
                    <<"Modality", Str(Get(series_attrs, "Modality", <<>>))>>,
                    <<"BodyPartExamined", Str(Get(series_attrs, "BodyPartExamined", <<>>))>> >>
             e1 == [p.ex EXCEPT
                      !.series_id_counter = @ + 1,
                      !.series_list = Append(@, series_record),
                      !.rel_contains_series =
                          Append(@, << <<"StudyId", study_id>>,
                                       <<"SeriesId", ToString(series_id)>>,
                                       <<"SeriesNumber", ToString(parsed.num)>> >>),
                      !.rel_has_parameters =
                          Append(@, << <<"SeriesId", ToString(series_id)>>,
                                       <<"ParameterID", p.id>> >>)]
         IN  ImagesLoop(e1, cfg, ToString(series_id), folder.children,
                        path \o folder.name \o <<"/">>, 1)

\* the loop over sorted(os.listdir(study_path)) of process_study
RECURSIVE SeriesLoop(_, _, _, _, _, _)
SeriesLoop(e, cfg, study_id, children, path, i) ==
    IF i > Len(children) THEN e
    ELSE IF ~IsDir(children[i])
         THEN SeriesLoop(e, cfg, study_id, children, path, i + 1)
         ELSE SeriesLoop(process_series(e, cfg, study_id, children[i], path),
                         cfg, study_id, children, path, i + 1)

process_study(e, cfg, patient_id, folder, path) ==
    LET parsed == parse_study_folder_name(folder.name)
        rep_ima == find_first_ima(folder)
        r == read_dicom(rep_ima.file)
    IN
    IF ~rep_ima.found THEN e
    ELSE IF ~r.ok THEN e
    ELSE LET study_attrs == extract_attributes(r.ds, STUDY_ATTRS)
             q == _get_or_create_equipment(e, r.ds)
             study_date == Get(study_attrs, "StudyDate", <<>>)
             study_time == Get(study_attrs, "StudyTime", <<>>)
             dt == CombineDateTime(study_date, study_time)
             study_datetime == IF study_date = <<>> THEN <<>>
                               ELSE IF dt.ok THEN dt.iso ELSE parsed.timestamp
             study_id == q.ex.study_id_counter
             study_record ==
                 << <<"StudyId", ToString(study_id)>>,
                    <<"StudyInstanceUID", Str(Get(study_attrs, "StudyInstanceUID", <<>>))>>,
                    <<"StudyDatetime",
                      Str(IF study_datetime # <<>> THEN study_datetime ELSE parsed.timestamp)>>,
                    <<"StudyDescription", Str(Get(study_attrs, "StudyDescription", <<>>))>>,
                    <<"AccessionNumber", Str(Get(study_attrs, "AccessionNumber", <<>>))>>,
                    <<"InstitutionName", Str(Get(study_attrs, "InstitutionName", <<>>))>>,
                    <<"ReferringPhysician",
                      Str(Get(study_attrs, "ReferringPhysicianName", <<>>))>> >>
             e1 == [q.ex EXCEPT
                      !.study_id_counter = @ + 1,
                      !.studies = Append(@, study_record),
                      !.rel_has_study =
                          Append(@, << <<"PatientId", patient_id>>,
                                       <<"StudyId", ToString(study_id)>> >>),
                      !.rel_performed_on =
                          Append(@, << <<"StudyId", ToString(study_id)>>,
                                       <<"EquipmentId", q.id>> >>)]
         IN  SeriesLoop(e1, cfg, ToString(study_id), folder.children,
                        path \o folder.name \o <<"/">>, 1)

\* a loop over the study folders that a skipped folder ends
RECURSIVE StudiesLoopEndedBySkip(_, _, _, _, _, _)
StudiesLoopEndedBySkip(e, cfg, patient_id, children, path, i) ==
    IF i > Len(children) THEN e
    ELSE IF ~IsDir(children[i])
         THEN StudiesLoopEndedBySkip(e, cfg, patient_id, children, path, i + 1)
         ELSE IF process_study(e, cfg, patient_id, children[i], path) = e THEN e
         ELSE StudiesLoopEndedBySkip(process_study(e, cfg, patient_id, children[i], path),
                                     cfg, patient_id, children, path, i + 1)

\* the loop over sorted(os.listdir(patient_path)) of process_patient
RECURSIVE StudiesLoop(_, _, _, _, _, _)
StudiesLoop(e, cfg, patient_id, children, path, i) ==
    IF i > Len(children) THEN e
    ELSE IF ~IsDir(children[i])
         THEN StudiesLoop(e, cfg, patient_id, children, path, i + 1)
         ELSE StudiesLoop(process_study(e, cfg, patient_id, children[i], path),
                          cfg, patient_id, children, path, i + 1)

process_patient(e, cfg, folder) ==
    LET patient_id == ToString(IntOf(folder.name))
        first_ima == find_first_ima(folder)
        r == read_dicom(first_ima.file)
        patient_attrs == IF first_ima.found /\ r.ok
                         THEN extract_attributes(r.ds, PATIENT_ATTRS)
                         ELSE <<>>
        patient_record ==
            << <<"PatientId", patient_id>>,
               <<"Age", parse_patient_age(Get(patient_attrs, "PatientAge", <<>>))>>,
               <<"Sex", Str(Get(patient_attrs, "PatientSex", <<>>))>>,
               <<"Size", Str(Get(patient_attrs, "PatientSize", <<>>))>>,
               <<"Weight", Str(Get(patient_attrs, "PatientWeight", <<>>))>>,
               <<"PatientIdentityRemoved",
                 parse_yes_no_to_boolean(Get(patient_attrs, "PatientIdentityRemoved", <<>>))>>,
               <<"DeidentificationMethod",
                 Str(Get(patient_attrs, "DeidentificationMethod", <<>>))>>,
               <<"Birthdate", Str(Get(patient_attrs, "PatientBirthDate", <<>>))>>,
               <<"ClinicalNote", Get(e.clinical_notes, patient_id, "")>> >>
        e1 == [e EXCEPT !.patients = Append(@, patient_record)]
    IN  StudiesLoop(e1, cfg, patient_id, folder.children, folder.name \o <<"/">>, 1)

(***************************************************************************)
(* The CSV writers.                                                        *)
(***************************************************************************)
EmptyDir == [n \in OutFiles |-> [exists |-> FALSE, lines |-> <<>>]]

\* an open() that truncates the file whatever the mode
OpenedTruncated(f, filename, mode) == <<>>

\* what open(filepath, mode) leaves in the file before the first write
Opened(f, filename, mode) ==
    IF mode = "w" \/ ~f[filename].exists THEN <<>> ELSE f[filename].lines

\* csv.DictWriter(f, fieldnames): writeheader() when asked, then one writerow per
\* row with {k: row.get(k, "") for k in fieldnames}
DictWriterLines(fieldnames, data, write_header) ==
    (IF write_header THEN <<fieldnames>> ELSE <<>>)
        \o [i \in 1..Len(data) |->
               [j \in 1..Len(fieldnames) |-> Get(data[i], fieldnames[j], "")]]

_write_csv_batch(f, filename, data, mode, write_header) ==
    IF data = <<>> THEN f
    ELSE LET fieldnames == Keys(data[1])
         IN  [f EXCEPT ![filename] =
                 [exists |-> TRUE,
                  lines |-> Opened(f, filename, mode)
                            \o DictWriterLines(fieldnames, data, write_header)]]

\* a merge that puts each new element of fieldnames in front
RECURSIVE MergeFieldsInFront(_, _)
MergeFieldsInFront(merged_fields, fieldnames) ==
    IF fieldnames = <<>> THEN merged_fields
    ELSE MergeFieldsInFront(IF InSeq(fieldnames[1], merged_fields) THEN merged_fields
                            ELSE <<fieldnames[1]>> \o merged_fields,
                            Tail(fieldnames))

\* merged with every element of fieldnames it does not hold appended, in order
RECURSIVE MergeFields(_, _)
MergeFields(merged_fields, fieldnames) ==
    IF fieldnames = <<>> THEN merged_fields
    ELSE MergeFields(IF InSeq(fieldnames[1], merged_fields) THEN merged_fields
                     ELSE Append(merged_fields, fieldnames[1]),
                     Tail(fieldnames))

\* the keys of the rows outside fixed_keys, each once, in first-seen order
RECURSIVE DynamicKeys(_, _, _)
DynamicKeys(data, fixed_keys, dynamic_keys) ==
    IF data = <<>> THEN dynamic_keys
    ELSE LET ks == Keys(data[1])
             new == SelectSeq(ks, LAMBDA k : ~InSeq(k, fixed_keys))
         IN  DynamicKeys(Tail(data), fixed_keys, MergeFields(dynamic_keys, new))

_write_csv_dynamic_batch(f, cfg, filename, data, mode, write_header) ==
    IF data = <<>> THEN f
    ELSE LET fixed_keys == IF cfg.GENERATE_EMBEDDINGS
                           THEN <<"ImageId", "EmbeddingVector", "FilePath">>
                           ELSE <<"ImageId", "FilePath">>
             batch_fields == fixed_keys \o DynamicKeys(data, fixed_keys, <<>>)
             \* csv.DictReader(f).fieldnames: the first line of the file
             fieldnames == IF mode = "a" /\ f[filename].exists
                           THEN MergeFields(f[filename].lines[1], batch_fields)
                           ELSE batch_fields
         IN  [f EXCEPT ![filename] =
                 [exists |-> TRUE,
                  lines |-> Opened(f, filename, mode)
                            \o DictWriterLines(fieldnames, data, write_header)]]

\* the nine writes of _write_batch, in order: the directory they leave
WriteLists(e, f, cfg) ==
    LET mode == IF e.first_write THEN "w" ELSE "a"
        write_header == e.first_write
        f1 == _write_csv_batch(f, PATIENT_CSV, e.patients, mode, write_header)
        f2 == _write_csv_batch(f1, STUDY_CSV, e.studies, mode, write_header)
        f3 == _write_csv_batch(f2, SERIES_CSV, e.series_list, mode, write_header)
        f4 == _write_csv_dynamic_batch(f3, cfg, IMAGE_CSV, e.images, mode, write_header)
        f5 == _write_csv_batch(f4, REL_HAS_STUDY_CSV, e.rel_has_study, mode,
                               write_header)
        f6 == _write_csv_batch(f5, REL_CONTAINS_SERIES_CSV, e.rel_contains_series,
                               mode, write_header)
        f7 == _write_csv_batch(f6, REL_CONTAINS_IMAGE_CSV, e.rel_contains_image,
                               mode, write_header)
        f8 == _write_csv_batch(f7, REL_HAS_PARAMETERS_CSV, e.rel_has_parameters,
                               mode, write_header)
    IN  _write_csv_batch(f8, REL_PERFORMED_ON_CSV, e.rel_performed_on, mode,
                         write_header)

\* a flush that also starts the five counters again
ClearBatchAndCounters(e) ==
    [e EXCEPT
       !.patients = <<>>, !.studies = <<>>, !.series_list = <<>>, !.images = <<>>,
       !.rel_has_study = <<>>, !.rel_contains_series = <<>>,
       !.rel_contains_image = <<>>, !.rel_has_parameters = <<>>,
       !.rel_performed_on = <<>>, !.first_write = FALSE,
       !.study_id_counter = 1, !.series_id_counter = 1, !.image_id_counter = 1,
       !.equipment_id_counter = 1, !.param_id_counter = 1]

\* a flush that also empties the two registries
ClearBatchAndMaps(e) ==
    [e EXCEPT
       !.patients = <<>>, !.studies = <<>>, !.series_list = <<>>, !.images = <<>>,
       !.rel_has_study = <<>>, !.rel_contains_series = <<>>,
       !.rel_contains_image = <<>>, !.rel_has_parameters = <<>>,
       !.rel_performed_on = <<>>, !.first_write = FALSE,
       !.equipment_map = <<>>, !.param_map = <<>>]

\* "Clear batch data (but keep equipment_map and param_map)", first_write = False
ClearBatch(e) ==
    [e EXCEPT
       !.patients = <<>>,
       !.studies = <<>>,
       !.series_list = <<>>,
       !.images = <<>>,
       !.rel_has_study = <<>>,
       !.rel_contains_series = <<>>,
       !.rel_contains_image = <<>>,
       !.rel_has_parameters = <<>>,
       !.rel_performed_on = <<>>,
       !.first_write = FALSE]

\* [ex, fs] after the call
_write_batch(e, f, cfg) ==
    IF e.patients = <<>> THEN [ex |-> e, fs |-> f]
    ELSE [ex |-> ClearBatch(e), fs |-> WriteLists(e, f, cfg)]

_write_csv(f, filename, data) ==
    IF data = <<>> THEN f
    ELSE [f EXCEPT ![filename] =
             [exists |-> TRUE,
              lines |-> DictWriterLines(Keys(data[1]), data, TRUE)]]

\* a last step that writes the Equipment table only
_finalize_equipment_only(e, f) == _write_csv(f, EQUIPMENT_CSV, Values(e.equipment_map))

_finalize_equipment_and_params(e, f) ==
    LET equipment_list == Values(e.equipment_map)
        param_list == Values(e.param_map)
    IN  _write_csv(_write_csv(f, EQUIPMENT_CSV, equipment_list),
                   IMAGING_PARAMS_CSV, param_list)

\* the in-memory batch lists of the object, by the file each is written to
BatchOf(e) ==
    [n \in BatchFiles |->
        CASE n = PATIENT_CSV -> e.patients
          [] n = STUDY_CSV -> e.studies
          [] n = SERIES_CSV -> e.series_list
          [] n = IMAGE_CSV -> e.images
          [] n = REL_HAS_STUDY_CSV -> e.rel_has_study
          [] n = REL_CONTAINS_SERIES_CSV -> e.rel_contains_series
          [] n = REL_CONTAINS_IMAGE_CSV -> e.rel_contains_image
          [] n = REL_HAS_PARAMETERS_CSV -> e.rel_has_parameters
          [] n = REL_PERFORMED_ON_CSV -> e.rel_performed_on]

\* the loop of export() from the i-th folder of the listing t on; o is [ex, fs]
RECURSIVE ExportLoop(_, _, _, _)
\* the batch test after process_patient has returned e
ExportBatchTest(e, f, cfg, t, i) ==
    IF e.patient_count >= e.batch_size
    THEN ExportLoop([ex |-> [_write_batch(e, f, cfg).ex EXCEPT !.patient_count = 0],
                     fs |-> _write_batch(e, f, cfg).fs], cfg, t, i + 1)
    ELSE ExportLoop([ex |-> e, fs |-> f], cfg, t, i + 1)

ExportLoop(o, cfg, t, i) ==
    IF i > Len(t) THEN o
    ELSE ExportBatchTest([process_patient(o.ex, cfg, PatientFolder(i, t[i]))
                             EXCEPT !.patient_count = @ + 1],
                         o.fs, cfg, t, i)

\* the remaining batch, then the two registries
ExportTail(o, cfg) ==
    IF o.ex.patients # <<>>
    THEN _finalize_equipment_and_params(o.ex, _write_batch(o.ex, o.fs, cfg).fs)
    ELSE _finalize_equipment_and_params(o.ex, o.fs)

\* the output directory export() leaves: a new DataExporter(config, batch_size)
\* run over the listing t (positions in PatientShapes) into the directory f
export(batch_size, f, cfg, t) ==
    ExportTail(ExportLoop([ex |-> NewExporter(cfg, batch_size), fs |-> f], cfg, t, 1), cfg)

(***************************************************************************)
(* export(): the loop over the patient folders, the flushes, the final     *)
(* write of the two registries.  Under SpecRerun a second run follows over *)
(* the same tree into the same output directory, as main.py makes.         *)
(***************************************************************************)
\* no parser has been called on its own
NotCalled == [fn |-> "none", val |-> <<>>]

Init ==
    /\ config \in Configs
    /\ \E b \in 1..MaxBatchSize : ex = NewExporter(config, b)
    /\ fs = EmptyDir
    /\ pc = "loop"
    /\ tree = <<>>
    /\ idx = 0
    /\ written = [n \in BatchFiles |-> <<>>]
    /\ run = 1
    /\ fs1 = EmptyDir
    /\ arg = <<>>
    /\ ret = NotCalled

\* the folders the next entry of sorted(patient_folders) may be: any folder of the
\* catalogue in the first run; in the rerun the same folder, listed in any order
NextFolders == IF run = 1 THEN 1..NumShapes ELSE Listings[tree[idx + 1]]

\* an iteration in which the failed read of the patient's first file is raised
ProcessPatientRaising ==
    /\ pc = "loop"
    /\ IF run = 1 THEN Len(tree) < MaxPatients ELSE idx < Len(tree)
    /\ \E k \in NextFolders :
          /\ ex' = [process_patient(ex, config, PatientFolder(idx + 1, k))
                       EXCEPT !.patient_count = @ + 1]
          /\ tree' = IF run = 1 THEN Append(tree, k) ELSE tree
          /\ pc' = IF find_first_ima(PatientFolder(idx + 1, k)).found
                      /\ ~read_dicom(find_first_ima(PatientFolder(idx + 1, k)).file).ok
                   THEN "raised" ELSE "batch"
    /\ idx' = idx + 1
    /\ UNCHANGED <<arg, ret, config, fs, written, run, fs1>>

\* one iteration of the loop up to the batch test: process_patient, patient_count += 1
ProcessPatient ==
    /\ pc = "loop"
    /\ IF run = 1 THEN Len(tree) < MaxPatients ELSE idx < Len(tree)
    /\ \E k \in NextFolders :
          /\ ex' = [process_patient(ex, config, PatientFolder(idx + 1, k))
                       EXCEPT !.patient_count = @ + 1]
          /\ tree' = IF run = 1 THEN Append(tree, k) ELSE tree
    /\ idx' = idx + 1
    /\ pc' = "batch"
    /\ UNCHANGED <<arg, ret, config, fs, written, run, fs1>>

\* the history of flushes after _write_batch on e: one more batch list per table
Flushed(e) == [n \in BatchFiles |-> Append(written[n], BatchOf(e)[n])]

\* a flush of the full batch that leaves patient_count as it is
WriteBatchFullKeepingCount ==
    /\ pc = "batch"
    /\ ex.patient_count >= ex.batch_size
    /\ ex' = _write_batch(ex, fs, config).ex
    /\ fs' = _write_batch(ex, fs, config).fs
    /\ written' = Flushed(ex)
    /\ pc' = "loop"
    /\ UNCHANGED <<arg, ret, config, tree, idx, run, fs1>>

\* if self.patient_count >= self.batch_size: _write_batch(); patient_count = 0
WriteBatchFull ==
    /\ pc = "batch"
    /\ ex.patient_count >= ex.batch_size
    /\ LET w == _write_batch(ex, fs, config)
       IN  /\ ex' = [w.ex EXCEPT !.patient_count = 0]
           /\ fs' = w.fs
    /\ written' = Flushed(ex)
    /\ pc' = "loop"
    /\ UNCHANGED <<arg, ret, config, tree, idx, run, fs1>>

BatchNotFull ==
    /\ pc = "batch"
    /\ ex.patient_count < ex.batch_size
    /\ pc' = "loop"
    /\ UNCHANGED <<arg, ret, config, ex, fs, tree, idx, written, run, fs1>>

\* the list of patient folders is exhausted
LoopEnd ==
    /\ pc = "loop"
    /\ run = 2 => idx = Len(tree)
    /\ pc' = "rest"
    /\ UNCHANGED <<arg, ret, config, ex, fs, tree, idx, written, run, fs1>>

\* if self.patients: self._write_batch()
WriteRemaining ==
    /\ pc = "rest"
    /\ ex.patients # <<>>
    /\ LET w == _write_batch(ex, fs, config)
       IN  /\ ex' = w.ex
           /\ fs' = w.fs
    /\ written' = Flushed(ex)
    /\ pc' = "final"
    /\ UNCHANGED <<arg, ret, config, tree, idx, run, fs1>>

NoRemaining ==
    /\ pc = "rest"
    /\ ex.patients = <<>>
    /\ pc' = "final"
    /\ UNCHANGED <<arg, ret, config, ex, fs, tree, idx, written, run, fs1>>

Finalize ==
    /\ pc = "final"
    /\ fs' = _finalize_equipment_and_params(ex, fs)
    /\ pc' = "done"
    /\ UNCHANGED <<arg, ret, config, ex, tree, idx, written, run, fs1>>

\* a new DataExporter with the same settings exports the same tree again
Rerun ==
    /\ pc = "done"
    /\ run = 1
    /\ run' = 2
    /\ fs1' = fs
    /\ ex' = NewExporter(config, ex.batch_size)
    /\ idx' = 0
    /\ written' = [n \in BatchFiles |-> <<>>]
    /\ pc' = "loop"
    /\ UNCHANGED <<arg, ret, config, fs, tree>>

Next ==
    \/ ProcessPatient
    \/ WriteBatchFull
    \/ BatchNotFull
    \/ LoopEnd
    \/ WriteRemaining
    \/ NoRemaining
    \/ Finalize

Spec == Init /\ [][Next]_vars

\* one run, then the rerun into the output directory the first run left
NextRerun ==
    \/ Next
    \/ Rerun

\* the two runs are explored with the notes file in place
InitRerun == Init /\ config.NOTES_FILE = "notes"

SpecRerun == InitRerun /\ [][NextRerun]_vars

\* export() is one sequential call: from each point of it (the head of the loop,
\* the batch test, the test for a remaining batch, the final write) control goes
\* on to another.  At each of these points a step of Next is enabled: the tests
\* at "batch" and at "rest" are exhaustive, the loop ends when the listing does.
Proceed ==
    /\ pc \in {"loop", "batch", "rest", "final"}
    /\ pc' \in {"loop", "batch", "rest", "final", "done"}

SpecFair == Init /\ [][Next]_vars /\ WF_pc(Proceed)

(***************************************************************************)
(* Vocabulary of the properties.                                           *)
(***************************************************************************)
RECURSIVE Flatten(_)
Flatten(ss) == IF ss = <<>> THEN <<>> ELSE ss[1] \o Flatten(Tail(ss))

\* every row of a table created in this run: the flushed ones, then the batch list
AllRows(n) == Flatten(written[n]) \o BatchOf(ex)[n]

\* the data lines a run has put in a file whose first line is the header
Lines(n) == fs[n].lines

FixedKeys ==
    IF config.GENERATE_EMBEDDINGS THEN <<"ImageId", "EmbeddingVector", "FilePath">>
    ELSE <<"ImageId", "FilePath">>

\* the Image batches of the flushes that wrote Image rows
ImageFlushes == SelectSeq(written[IMAGE_CSV], LAMBDA b : b # <<>>)

\* every row of batch b has exactly the keys ks, in that order
BatchKeysAre(b, ks) == \A i \in 1..Len(b) : Keys(b[i]) = ks

\* the subfolders of a folder, in the order the loops visit them
SubDirs(folder) == SelectSeq(folder.children, IsDir)

\* the folder is not skipped: it has a representative file and the file is readable
Taken(folder) ==
    /\ HasIma(folder)
    /\ find_first_ima(folder).found
    /\ read_dicom(find_first_ima(folder).file).ok

\* the header of the representative file of a folder that is not skipped
RepOf(folder) == read_dicom(find_first_ima(folder).file).ds

\* the subfolders dirs of the i-th patient folder, of the k-th processed study
PatientStudies(i, dirs) ==
    [j \in 1..Len(dirs) |-> [patient |-> i, at |-> j, folder |-> dirs[j]]]

StudySeries(k, dirs) ==
    [j \in 1..Len(dirs) |-> [study |-> k, at |-> j, folder |-> dirs[j]]]

SeriesImages(k, files) == [j \in 1..Len(files) |-> [series |-> k, file |-> files[j]]]

TakenOf(folders) == SelectSeq(folders, LAMBDA s : Taken(s.folder))

\* the study folders of the patient folders processed so far, in processing order
StudyFolders ==
    Flatten([i \in 1..Len(tree) |->
                PatientStudies(i, SubDirs(PatientFolder(i, tree[i])))])

TakenStudies == TakenOf(StudyFolders)

\* the series folders of the studies ts, in processing order
SeriesFoldersOf(ts) ==
    Flatten([k \in 1..Len(ts) |-> StudySeries(k, SubDirs(ts[k].folder))])

SeriesFolders == SeriesFoldersOf(TakenStudies)

TakenSeries == TakenOf(SeriesFolders)

\* the readable .ima files of the series ss, in processing order
IsImage(n) == ~IsDir(n) /\ EndsWithIma(n.name) /\ read_dicom(n).ok

ImageFilesOf(ss) ==
    Flatten([k \in 1..Len(ss) |->
                SeriesImages(k, SelectSeq(ss[k].folder.children, IsImage))])

ImageFiles == ImageFilesOf(TakenSeries)

\* the four Equipment fields, the ten ImagingParameters fields of a header
EquipmentFields(ds) ==
    <<get_dicom_attr(ds, "Manufacturer"), get_dicom_attr(ds, "ManufacturerModelName"),
      get_dicom_attr(ds, "SoftwareVersions"), get_dicom_attr(ds, "MagneticFieldStrength")>>

ParameterFields(ds) ==
    [i \in 1..Len(IMAGING_PARAM_ATTRS) |-> get_dicom_attr(ds, IMAGING_PARAM_ATTRS[i])]

\* the values under one key of a list of rows
Column(rows, key) == [i \in 1..Len(rows) |-> Get(rows[i], key, "")]

(***************************************************************************)
(* C1.  Header-merge: when the Image rows of the first flush have the      *)
(* columns ImageId, FilePath, A (after the fixed prefix) and those of the  *)
(* second flush bring the new column B, then after the second flush the    *)
(* header line of Image.csv is the fixed prefix, A, B; the rows of the     *)
(* first flush are empty under B; and every row holds, under each column   *)
(* of the header, its own value for that field (empty when it has none).   *)
(***************************************************************************)
HeaderMergeCase ==
    /\ Len(written[IMAGE_CSV]) = 2
    /\ written[IMAGE_CSV][1] # <<>>
    /\ written[IMAGE_CSV][2] # <<>>
    /\ BatchKeysAre(written[IMAGE_CSV][1], FixedKeys \o <<"A">>)
    /\ BatchKeysAre(written[IMAGE_CSV][2], FixedKeys \o <<"B">>)

\* line i + 1 of the file is row i, laid out under the columns of header
RowsUnder(header, rows, lines) ==
    /\ Len(lines) = Len(rows) + 1
    /\ \A i \in 1..Len(rows) :
          /\ Len(lines[i + 1]) = Len(header)
          /\ \A j \in 1..Len(header) : lines[i + 1][j] = Get(rows[i], header[j], "")

C1_HeaderMerge ==
    HeaderMergeCase =>
        /\ Lines(IMAGE_CSV)[1] = FixedKeys \o <<"A", "B">>
        /\ RowsUnder(FixedKeys \o <<"A", "B">>, AllRows(IMAGE_CSV), Lines(IMAGE_CSV))
        /\ \A i \in 1..Len(written[IMAGE_CSV][1]) :
              Lines(IMAGE_CSV)[i + 1][Len(FixedKeys) + 2] = ""

(***************************************************************************)
(* C2.  After every flush Image.csv is one well-formed table: every data   *)
(* line has as many cells as the header line.                              *)
(***************************************************************************)
C2_ImageWellFormed ==
    fs[IMAGE_CSV].exists =>
        \A i \in 2..Len(Lines(IMAGE_CSV)) :
            Len(Lines(IMAGE_CSV)[i]) = Len(Lines(IMAGE_CSV)[1])

(***************************************************************************)
(* C3.  Batch-invariance: a run with batch_size = 1 leaves, in every file, *)
(* what a run over the same tree with batch_size = number of patient       *)
(* folders leaves.                                                         *)
(***************************************************************************)
C3_BatchInvariance ==
    (pc = "done" /\ ex.batch_size = 1) =>
        fs = export(Len(tree), EmptyDir, config, tree)

(***************************************************************************)
(* C4.  Same content, same ID: two processed studies whose representative  *)
(* headers agree on Manufacturer, ManufacturerModelName, SoftwareVersions  *)
(* and MagneticFieldStrength have PERFORMED_ON rows with one EquipmentId,  *)
(* whichever came first and whatever flush each fell in; two processed     *)
(* series whose representative headers agree on the ten imaging-parameter  *)
(* fields have HAS_PARAMETERS rows with one ParameterID.                   *)
(***************************************************************************)
SameIds(folders, ids, Fields(_)) ==
    /\ Len(ids) = Len(folders)
    /\ \A i, j \in 1..Len(folders) :
          Fields(RepOf(folders[i].folder)) = Fields(RepOf(folders[j].folder))
          => ids[i] = ids[j]

C4_SameContentSameId ==
    /\ SameIds(TakenStudies, Column(AllRows(REL_PERFORMED_ON_CSV), "EquipmentId"),
               EquipmentFields)
    /\ SameIds(TakenSeries, Column(AllRows(REL_HAS_PARAMETERS_CSV), "ParameterID"),
               ParameterFields)

\* three studies in three flushes: the first and the third from one scanner with
\* one protocol, the second from another
AlikeApart(folders, Fields(_)) ==
    /\ Len(folders) = 3
    /\ Fields(RepOf(folders[1].folder)) = Fields(RepOf(folders[3].folder))
    /\ Fields(RepOf(folders[1].folder)) # Fields(RepOf(folders[2].folder))

C4_Witness ==
    /\ pc = "done"
    /\ ex.batch_size = 1
    /\ Len(tree) = 3
    /\ AlikeApart(TakenStudies, EquipmentFields)
    /\ AlikeApart(TakenSeries, ParameterFields)
    /\ Column(AllRows(REL_PERFORMED_ON_CSV), "EquipmentId") = <<"1", "2", "1">>
    /\ Column(AllRows(REL_HAS_PARAMETERS_CSV), "ParameterID") = <<"1", "2", "1">>

(***************************************************************************)
(* C5.  One row per distinct combination: when a run is over, Equipment.csv*)
(* has as many data rows as there are distinct 4-tuples (Manufacturer,     *)
(* ManufacturerModelName, SoftwareVersions, MagneticFieldStrength) among   *)
(* the representative headers of the processed studies.                    *)
(***************************************************************************)
EquipmentRowCount ==
    IF fs[EQUIPMENT_CSV].exists THEN Len(Lines(EQUIPMENT_CSV)) - 1 ELSE 0

Combinations(folders) ==
    {EquipmentFields(RepOf(folders[i].folder)) : i \in 1..Len(folders)}

C5_OneRowPerCombination ==
    pc = "done" => EquipmentRowCount = Cardinality(Combinations(TakenStudies))

(***************************************************************************)
(* C6.  Referential integrity at completion: both ids of every line of a   *)
(* relationship file are the key (the first cell) of a line of the entity  *)
(* file they refer to.  A header line passes on its own: the name of a     *)
(* relationship column is the name of the key column of its entity file.   *)
(***************************************************************************)
KeyOccurs(id, n) ==
    /\ fs[n].exists
    /\ \E i \in 1..Len(Lines(n)) : Lines(n)[i] # <<>> /\ Lines(n)[i][1] = id

RefersTo(rel, c, n) ==
    \A i \in 1..Len(Lines(rel)) :
        /\ Len(Lines(rel)[i]) >= c
        /\ KeyOccurs(Lines(rel)[i][c], n)

C6_ReferentialIntegrity ==
    pc = "done" =>
        /\ RefersTo(REL_HAS_STUDY_CSV, 1, PATIENT_CSV)
        /\ RefersTo(REL_HAS_STUDY_CSV, 2, STUDY_CSV)
        /\ RefersTo(REL_PERFORMED_ON_CSV, 1, STUDY_CSV)
        /\ RefersTo(REL_PERFORMED_ON_CSV, 2, EQUIPMENT_CSV)
        /\ RefersTo(REL_CONTAINS_SERIES_CSV, 1, STUDY_CSV)
        /\ RefersTo(REL_CONTAINS_SERIES_CSV, 2, SERIES_CSV)
        /\ RefersTo(REL_HAS_PARAMETERS_CSV, 1, SERIES_CSV)
        /\ RefersTo(REL_HAS_PARAMETERS_CSV, 2, IMAGING_PARAMS_CSV)
        /\ RefersTo(REL_CONTAINS_IMAGE_CSV, 1, SERIES_CSV)
        /\ RefersTo(REL_CONTAINS_IMAGE_CSV, 2, IMAGE_CSV)

(***************************************************************************)
(* C7.  Counting the rows of the in-memory batch with the rows already     *)
(* flushed: every Study row has exactly one HAS_STUDY row and exactly one  *)
(* PERFORMED_ON row with its StudyId, every Series row exactly one         *)
(* CONTAINS_SERIES row and exactly one HAS_PARAMETERS row with its         *)
(* SeriesId, every Image row exactly one CONTAINS_IMAGE row with its       *)
(* ImageId.                                                                *)
(***************************************************************************)
OneEach(rows, key, rels) ==
    \A i \in 1..Len(rows) :
        Cardinality({j \in 1..Len(rels) :
                        Get(rels[j], key, "") = Get(rows[i], key, "")}) = 1

ExactlyOne(entity, key, rel) == OneEach(AllRows(entity), key, AllRows(rel))

C7_ExactlyOneRelationship ==
    /\ ExactlyOne(STUDY_CSV, "StudyId", REL_HAS_STUDY_CSV)
    /\ ExactlyOne(STUDY_CSV, "StudyId", REL_PERFORMED_ON_CSV)
    /\ ExactlyOne(SERIES_CSV, "SeriesId", REL_CONTAINS_SERIES_CSV)
    /\ ExactlyOne(SERIES_CSV, "SeriesId", REL_HAS_PARAMETERS_CSV)
    /\ ExactlyOne(IMAGE_CSV, "ImageId", REL_CONTAINS_IMAGE_CSV)

\* rows of all three kinds both flushed and in the batch, after process_patient
C7_Witness ==
    /\ pc = "batch"
    /\ Flatten(written[STUDY_CSV]) # <<>>
    /\ Flatten(written[SERIES_CSV]) # <<>>
    /\ Flatten(written[IMAGE_CSV]) # <<>>
    /\ ex.studies # <<>>
    /\ ex.series_list # <<>>
    /\ Len(ex.images) >= 2

(***************************************************************************)
(* C8.  Determinism: a second run over the same directory tree, into the   *)
(* output directory the first run left, whatever order the file system     *)
(* lists the entries of a folder in, leaves every file as the first run    *)
(* left it.                                                                *)
(***************************************************************************)
C8_Determinism ==
    (pc = "done" /\ run = 2) => fs = fs1

(***************************************************************************)
(* C9.  Skip-on-missing-file: the rows of a run are the rows of the        *)
(* folders that are not skipped, one after the other.  A study folder      *)
(* without a .ima file beneath it, or with an unreadable representative,   *)
(* has no Study, HAS_STUDY or PERFORMED_ON row and nothing beneath it has  *)
(* a row; the study folders after it have theirs.  The same holds for a    *)
(* series folder and its Series, CONTAINS_SERIES, HAS_PARAMETERS, Image    *)
(* and CONTAINS_IMAGE rows.                                                *)
(***************************************************************************)
RowsOfTaken(ts, ss, fls) ==
    /\ Column(AllRows(REL_HAS_STUDY_CSV), "PatientId")
           = [k \in 1..Len(ts) |-> ToString(ts[k].patient)]
    /\ Column(AllRows(STUDY_CSV), "InstitutionName")
           = [k \in 1..Len(ts) |->
                 Str(get_dicom_attr(RepOf(ts[k].folder), "InstitutionName"))]
    /\ Len(AllRows(REL_PERFORMED_ON_CSV)) = Len(ts)
    /\ Column(AllRows(REL_CONTAINS_SERIES_CSV), "StudyId")
           = [k \in 1..Len(ss) |-> ToString(ss[k].study)]
    /\ Column(AllRows(SERIES_CSV), "SeriesType")
           = [k \in 1..Len(ss) |-> Str(parse_series_folder_name(ss[k].folder.name).desc)]
    /\ Len(AllRows(REL_HAS_PARAMETERS_CSV)) = Len(ss)
    /\ Column(AllRows(REL_CONTAINS_IMAGE_CSV), "SeriesId")
           = [k \in 1..Len(fls) |-> ToString(fls[k].series)]
    /\ Len(AllRows(IMAGE_CSV)) = Len(fls)

C9_SkipOnMissingFile == RowsOfTaken(TakenStudies, TakenSeries, ImageFiles)

\* whether a folder of fs that P holds of is followed by a sibling that is exported
SkippedThenTaken(folders, parent(_), P(_)) ==
    \E a, b \in 1..Len(folders) :
        /\ parent(folders[a]) = parent(folders[b])
        /\ folders[a].at < folders[b].at
        /\ P(folders[a].folder)
        /\ Taken(folders[b].folder)

NoIma(folder) == ~HasIma(folder)

Unreadable(folder) == HasIma(folder) /\ ~Taken(folder)

NotTaken(folder) == ~Taken(folder)

PatientOf(s) == s.patient

StudyOf(s) == s.study

\* a study folder without a .ima file, another with an unreadable representative
\* and a skipped series folder, each followed by a sibling that is exported
C9_Witness ==
    /\ pc = "done"
    /\ Len(tree) = 3
    /\ SkippedThenTaken(StudyFolders, PatientOf, NoIma)
    /\ SkippedThenTaken(StudyFolders, PatientOf, Unreadable)
    /\ SkippedThenTaken(SeriesFolders, StudyOf, NotTaken)
    /\ Len(Lines(STUDY_CSV)) >= 3
    /\ Len(Lines(IMAGE_CSV)) >= 3

(***************************************************************************)
(* C10.  Surrogate IDs: each of the five counters is one more than the     *)
(* number of entities of its kind created in the run, flushed or not, and  *)
(* the ids of these entities are 1, 2, ..., n in the order of creation: no *)
(* flush sets a counter back, no id is issued twice, none is left out.     *)
(***************************************************************************)
Upto(n) == [i \in 1..n |-> ToString(i)]

C10_SurrogateIds ==
    /\ ex.study_id_counter >= 1
    /\ ex.series_id_counter >= 1
    /\ ex.image_id_counter >= 1
    /\ ex.equipment_id_counter >= 1
    /\ ex.param_id_counter >= 1
    /\ Column(AllRows(STUDY_CSV), "StudyId") = Upto(ex.study_id_counter - 1)
    /\ Column(AllRows(SERIES_CSV), "SeriesId") = Upto(ex.series_id_counter - 1)
    /\ Column(AllRows(IMAGE_CSV), "ImageId") = Upto(ex.image_id_counter - 1)
    /\ Column(Values(ex.equipment_map), "EquipmentId") = Upto(ex.equipment_id_counter - 1)
    /\ Column(Values(ex.param_map), "ParameterID") = Upto(ex.param_id_counter - 1)

\* entities of every kind created after a flush, ids running on from the flushed ones
C10_Witness ==
    /\ pc = "batch"
    /\ Flatten(written[IMAGE_CSV]) # <<>>
    /\ ex.images # <<>>
    /\ ex.study_id_counter >= 3
    /\ ex.series_id_counter >= 3
    /\ ex.image_id_counter >= 4
    /\ ex.equipment_id_counter >= 3
    /\ ex.param_id_counter >= 3
    /\ Column(ex.images, "ImageId")[1] = ToString(Len(Flatten(written[IMAGE_CSV])) + 1)

(***************************************************************************)
(* C11.  For each table written by the batch flushes, once the table has   *)
(* rows in its file the first line of the file is the header line (the     *)
(* field names of the table; for Image.csv at least the fixed ones) and    *)
(* the file has exactly one line more than the rows written: one header,   *)
(* before every data row, whatever flush first had a row for the table.    *)
(***************************************************************************)
HeaderOf(n) ==
    IF n = IMAGE_CSV THEN FixedKeys ELSE Keys(Flatten(written[n])[1])

HeaderFirstAndOnce(n) ==
    Flatten(written[n]) # <<>> =>
        /\ fs[n].exists
        /\ Len(Lines(n)) = Len(Flatten(written[n])) + 1
        /\ Len(Lines(n)[1]) >= Len(HeaderOf(n))
        /\ SubSeq(Lines(n)[1], 1, Len(HeaderOf(n))) = HeaderOf(n)

C11_HeaderFirstAndOnce == \A n \in BatchFiles : HeaderFirstAndOnce(n)

(***************************************************************************)
(* C12.  First-seen attributes win.  A call of _get_or_create_equipment or *)
(* _get_or_create_imaging_params with a header whose digest is registered  *)
(* returns the stored id and leaves the object as it is; and the row a     *)
(* registry stores under the id of a study (series) holds the attributes   *)
(* of the first study (series) that got this id, InstitutionName included. *)
(***************************************************************************)
Headers == {dsA, dsB, dsC}

HitReturnsStored(e) ==
    \A ds \in Headers :
        /\ HasKey(e.equipment_map, generate_hash_id(EquipmentFields(ds)))
           => _get_or_create_equipment(e, ds)
                  = [ex |-> e,
                     id |-> Get(Get(e.equipment_map,
                                    generate_hash_id(EquipmentFields(ds)), <<>>),
                                "EquipmentId", "")]
        /\ HasKey(e.param_map, generate_hash_id(ParameterFields(ds)))
           => _get_or_create_imaging_params(e, ds)
                  = [ex |-> e,
                     id |-> Get(Get(e.param_map,
                                    generate_hash_id(ParameterFields(ds)), <<>>),
                                "ParameterID", "")]

\* the first position of ids that holds the id at position k
FirstWith(ids, k) ==
    CHOOSE j \in 1..k : ids[j] = ids[k] /\ \A i \in 1..(j - 1) : ids[i] # ids[k]

FirstSeenStored(folders, ids, rows, key, attr_list) ==
    /\ Len(ids) = Len(folders)
    /\ \A k \in 1..Len(folders) :
          \E i \in 1..Len(rows) :
              rows[i] = << <<key, ids[k]>> >>
                            \o Cells(extract_attributes(
                                         RepOf(folders[FirstWith(ids, k)].folder),
                                         attr_list))

C12_FirstSeenWins ==
    /\ HitReturnsStored(ex)
    /\ FirstSeenStored(TakenStudies, Column(AllRows(REL_PERFORMED_ON_CSV), "EquipmentId"),
                       Values(ex.equipment_map), "EquipmentId", EQUIPMENT_ATTRS)
    /\ FirstSeenStored(TakenSeries, Column(AllRows(REL_HAS_PARAMETERS_CSV), "ParameterID"),
                       Values(ex.param_map), "ParameterID", IMAGING_PARAM_ATTRS)

\* a later folder got the id of an earlier one though its header differs in attr
LaterDiffers(folders, ids, attr) ==
    \E i, j \in 1..Len(folders) :
        /\ i < j
        /\ ids[i] = ids[j]
        /\ get_dicom_attr(RepOf(folders[i].folder), attr)
               # get_dicom_attr(RepOf(folders[j].folder), attr)

C12_Witness ==
    /\ pc = "batch"
    /\ LaterDiffers(TakenStudies, Column(AllRows(REL_PERFORMED_ON_CSV), "EquipmentId"),
                    "InstitutionName")
    /\ LaterDiffers(TakenSeries, Column(AllRows(REL_HAS_PARAMETERS_CSV), "ParameterID"),
                    "ScanningSequence")

(***************************************************************************)
(* C13.  Equipment.csv and ImagingParameters.csv are not written by a      *)
(* batch flush and the registries are not cleared by one; when the run is  *)
(* over each of the two files has been written once, after the last flush. *)
(* As stated (C13_RegistriesWrittenOnce) both files exist when the run is  *)
(* over.  As the code has it (C13_RegistriesWrittenOnceIfAny) a registry   *)
(* without entries is not written at all: its file does not exist.         *)
(***************************************************************************)
\* the ids a relationship column refers to all have their entry in the registry
Kept(ids, rows, key) ==
    {ids[i] : i \in 1..Len(ids)} = {Get(rows[i], key, "") : i \in 1..Len(rows)}

RegistriesKept ==
    /\ Kept(Column(AllRows(REL_PERFORMED_ON_CSV), "EquipmentId"),
            Values(ex.equipment_map), "EquipmentId")
    /\ Kept(Column(AllRows(REL_HAS_PARAMETERS_CSV), "ParameterID"),
            Values(ex.param_map), "ParameterID")

\* the file is the header line and one line per entry of the registry
WrittenFrom(n, rows) ==
    /\ rows # <<>>
    /\ fs[n] = [exists |-> TRUE, lines |-> DictWriterLines(Keys(rows[1]), rows, TRUE)]

C13_RegistriesWrittenOnce ==
    /\ RegistriesKept
    /\ pc # "done" => ~fs[EQUIPMENT_CSV].exists /\ ~fs[IMAGING_PARAMS_CSV].exists
    /\ pc = "done" => /\ WrittenFrom(EQUIPMENT_CSV, Values(ex.equipment_map))
                      /\ WrittenFrom(IMAGING_PARAMS_CSV, Values(ex.param_map))

C13_RegistriesWrittenOnceIfAny ==
    /\ RegistriesKept
    /\ pc # "done" => ~fs[EQUIPMENT_CSV].exists /\ ~fs[IMAGING_PARAMS_CSV].exists
    /\ pc = "done" =>
          /\ IF ex.equipment_map = <<>> THEN ~fs[EQUIPMENT_CSV].exists
             ELSE WrittenFrom(EQUIPMENT_CSV, Values(ex.equipment_map))
          /\ IF ex.param_map = <<>> THEN ~fs[IMAGING_PARAMS_CSV].exists
             ELSE WrittenFrom(IMAGING_PARAMS_CSV, Values(ex.param_map))

\* a finished run of three flushes with two entries in each registry
C13_Witness ==
    /\ pc = "done"
    /\ Len(written[PATIENT_CSV]) = 3
    /\ Len(ex.equipment_map) = 2
    /\ Len(ex.param_map) = 2
    /\ Len(Lines(EQUIPMENT_CSV)) = 3
    /\ Len(Lines(IMAGING_PARAMS_CSV)) = 3

(***************************************************************************)
(* The parsers of Utils called on their own, and process_image on a file   *)
(* of a given name: the name is any "_"-join of up to MaxTokens tokens, or *)
(* one of the folder and file names of the catalogue.                      *)
(***************************************************************************)
MaxTokens == 3

Tokens ==
    { <<>>,
      <<"L">>,
      <<"L", "S", "S">>,
      <<"T", "2">>,
      <<"2", "0", "1", "6", "0", "3", "0", "9">>,
      <<"2", "0", "1", "6", "0", "3", "0">>,
      <<"2", "0", "1", "6", "0", "3", "0", "9", "1">>,
      <<"0", "9", "1", "6", "2", "9">>,
      <<"2", "4", "0", "0", "0", "0">>,
      <<"0", "0", "0", "4">>,
      <<"0", "0", "0">>,
      <<"a", ".", "i", "m", "a">>,
      <<"0", "0", "8", ".", "i", "m", "a">> }

TokenLists == UNION {[1..n -> Tokens] : n \in 1..MaxTokens}

Names ==
    {Join(ts, "_") : ts \in TokenLists}
        \cup {StudyName1, StudyName2, SeriesName1, SeriesName2, FileName1, FileName2}

InitParse ==
    /\ config \in Configs
    /\ ex = NewExporter(config, 1)
    /\ fs = EmptyDir
    /\ pc = "call"
    /\ tree = <<>>
    /\ idx = 0
    /\ written = [n \in BatchFiles |-> <<>>]
    /\ run = 1
    /\ fs1 = EmptyDir
    /\ arg \in Names
    /\ ret = NotCalled

CallParseStudy ==
    /\ pc = "call"
    /\ ret' = [fn |-> "parse_study_folder_name", val |-> parse_study_folder_name(arg)]
    /\ pc' = "returned"
    /\ UNCHANGED <<arg, config, ex, fs, tree, idx, written, run, fs1>>

CallParseSeries ==
    /\ pc = "call"
    /\ ret' = [fn |-> "parse_series_folder_name", val |-> parse_series_folder_name(arg)]
    /\ pc' = "returned"
    /\ UNCHANGED <<arg, config, ex, fs, tree, idx, written, run, fs1>>

CallParseInstance ==
    /\ pc = "call"
    /\ ret' = [fn |-> "parse_image_instance_number",
               val |-> parse_image_instance_number(arg)]
    /\ pc' = "returned"
    /\ UNCHANGED <<arg, config, ex, fs, tree, idx, written, run, fs1>>

\* process_image(1, arg, path) on a readable file named arg of a new exporter
CallProcessImage ==
    /\ pc = "call"
    /\ ex' = process_image(ex, config, "1", File(arg, TRUE, dsA), <<"0", "0", "0", "1", "/">>)
    /\ ret' = [fn |-> "process_image", val |-> <<>>]
    /\ pc' = "returned"
    /\ UNCHANGED <<arg, config, fs, tree, idx, written, run, fs1>>

NextParse ==
    \/ CallParseStudy
    \/ CallParseSeries
    \/ CallParseInstance
    \/ CallProcessImage

SpecParse == InitParse /\ [][NextParse]_vars

(***************************************************************************)
(* C14.  Flush schedule, for batch size N and idx patient folders taken:   *)
(* there has been one flush after each of the patients N, 2N, ... and, at  *)
(* the end of the run, one more exactly when the number of patients is not *)
(* a multiple of N; every flush but that last one wrote N Patient rows,    *)
(* the last one at most N; after a flush the nine batch lists are empty;   *)
(* every Patient row is in exactly one flush or still in the batch, and    *)
(* when the run is over every row created is in exactly one flush and      *)
(* Patient.csv holds each patient once.                                    *)
(***************************************************************************)
BatchEmpty == \A n \in BatchFiles : BatchOf(ex)[n] = <<>>

FlushSizes(N, flushes, full) ==
    /\ \A k \in 1..Len(flushes) : Len(flushes[k]) >= 1 /\ Len(flushes[k]) <= N
    /\ \A k \in 1..full : k <= Len(flushes) /\ Len(flushes[k]) = N

Schedule(N, flushes) ==
    /\ pc = "loop" => /\ Len(flushes) = idx \div N
                      /\ Len(ex.patients) = idx % N
                      /\ ex.patient_count = idx % N
                      /\ idx % N = 0 => BatchEmpty
    /\ pc = "batch" => /\ Len(flushes) = (idx - 1) \div N
                       /\ Len(ex.patients) = ((idx - 1) % N) + 1
    /\ pc = "rest" => Len(flushes) = idx \div N /\ Len(ex.patients) = idx % N
    /\ pc \in {"final", "done"} => /\ Len(flushes) = (idx + N - 1) \div N
                                   /\ BatchEmpty
    /\ FlushSizes(N, flushes, IF pc = "batch" THEN (idx - 1) \div N ELSE idx \div N)
    /\ Column(AllRows(PATIENT_CSV), "PatientId") = Upto(idx)

EveryRowFlushedOnce ==
    /\ Column(Flatten(written[STUDY_CSV]), "StudyId") = Upto(ex.study_id_counter - 1)
    /\ Column(Flatten(written[SERIES_CSV]), "SeriesId") = Upto(ex.series_id_counter - 1)
    /\ Column(Flatten(written[IMAGE_CSV]), "ImageId") = Upto(ex.image_id_counter - 1)
    /\ Column(Flatten(written[REL_HAS_STUDY_CSV]), "StudyId")
           = Upto(ex.study_id_counter - 1)
    /\ Column(Flatten(written[REL_PERFORMED_ON_CSV]), "StudyId")
           = Upto(ex.study_id_counter - 1)
    /\ Column(Flatten(written[REL_CONTAINS_SERIES_CSV]), "SeriesId")
           = Upto(ex.series_id_counter - 1)
    /\ Column(Flatten(written[REL_HAS_PARAMETERS_CSV]), "SeriesId")
           = Upto(ex.series_id_counter - 1)
    /\ Column(Flatten(written[REL_CONTAINS_IMAGE_CSV]), "ImageId")
           = Upto(ex.image_id_counter - 1)
    /\ idx > 0 => Lines(PATIENT_CSV)
                      = DictWriterLines(Keys(Flatten(written[PATIENT_CSV])[1]),
                                        Flatten(written[PATIENT_CSV]), TRUE)

C14_FlushSchedule ==
    /\ Schedule(ex.batch_size, written[PATIENT_CSV])
    /\ pc = "done" => EveryRowFlushedOnce

\* three patients with batch size 2: a full flush, then the flush of the last one
C14_Witness ==
    /\ pc = "done"
    /\ ex.batch_size = 2
    /\ idx = 3
    /\ Len(written[PATIENT_CSV]) = 2
    /\ Len(written[PATIENT_CSV][1]) = 2
    /\ Len(written[PATIENT_CSV][2]) = 1
    /\ Len(Flatten(written[IMAGE_CSV])) >= 3

(***************************************************************************)
(* C15.  No unreadable leaf file, unparseable folder name, study or series *)
(* without a representative file, or notes file that cannot be loaded      *)
(* stops the export: every run gets to the end of the final step, with     *)
(* every patient folder of the listing processed (one Patient row each,    *)
(* all flushed) and the two registries written as far as they have         *)
(* entries.                                                                *)
(***************************************************************************)
Completed ==
    /\ pc = "done"
    /\ idx = Len(tree)
    /\ Column(Flatten(written[PATIENT_CSV]), "PatientId") = Upto(Len(tree))
    /\ ex.equipment_map # <<>> => fs[EQUIPMENT_CSV].exists
    /\ ex.param_map # <<>> => fs[IMAGING_PARAMS_CSV].exists

C15_ExportCompletes == <>Completed

\* a run without notes over a study folder with no leaf file, a study with an
\* unparseable name, a study and a series whose only file is unreadable
C15_Witness ==
    /\ Completed
    /\ config.NOTES_FILE = "missing"
    /\ tree = <<7, 8, 10>>
    /\ fs[EQUIPMENT_CSV].exists
    /\ fs[IMAGING_PARAMS_CSV].exists

(***************************************************************************)
(* C16.  Every patient folder processed has exactly one Patient row, in    *)
(* processing order, also a folder without a .ima file and one whose first *)
(* .ima file cannot be read.  The row of the i-th folder ("000i") has the  *)
(* PatientId i; its ClinicalNote is the note the notes file has for i, or  *)
(* the empty string (no note for i, or no notes loaded); when the folder   *)
(* has no first file that can be read, all its demographic cells are       *)
(* empty.                                                                  *)
(***************************************************************************)
PatientColumns ==
    <<"PatientId", "Age", "Sex", "Size", "Weight", "PatientIdentityRemoved",
      "DeidentificationMethod", "Birthdate", "ClinicalNote">>

Demographic ==
    {"Age", "Sex", "Size", "Weight", "PatientIdentityRemoved",
     "DeidentificationMethod", "Birthdate"}

NoteFor(i) ==
    IF config.NOTES_FILE = "notes" THEN Get(NotesFile, ToString(i), "") ELSE ""

PatientRowsAre(rows) ==
    /\ Len(rows) = idx
    /\ \A i \in 1..Len(rows) :
          /\ Keys(rows[i]) = PatientColumns
          /\ Get(rows[i], "PatientId", "") = ToString(i)
          /\ Get(rows[i], "ClinicalNote", "?") = NoteFor(i)
          /\ ~Taken(PatientFolder(i, tree[i])) =>
                 \A k \in Demographic : Get(rows[i], k, "?") = ""

C16_OnePatientRowPerFolder == PatientRowsAre(AllRows(PATIENT_CSV))

\* a patient with a readable first file and a note, an empty patient folder, and
\* a patient whose first file is unreadable while a later one is readable
C16_Witness ==
    /\ pc = "done"
    /\ config.NOTES_FILE = "notes"
    /\ tree = <<2, 1, 8>>
    /\ Column(AllRows(PATIENT_CSV), "Age") = <<"53", "", "">>
    /\ Column(AllRows(PATIENT_CSV), "ClinicalNote") = <<"note-1", "", "">>
    /\ Len(AllRows(STUDY_CSV)) = 2

(***************************************************************************)
(* C17.  parse_study_folder_name returns for every name, with the name     *)
(* split on "_": as region the first token; when some token is exactly     *)
(* eight digits, as protocol the "_"-join of the tokens strictly between   *)
(* the first token and the first such token (empty when there is none);    *)
(* when no token is exactly eight digits, an empty protocol and an empty   *)
(* timestamp.  L-SPINE_LSS_20160309_091629_240000 gives L-SPINE, LSS,      *)
(* 2016-03-09T09:16:29.240000 and NOTAGOODNAME gives NOTAGOODNAME, "", "". *)
(***************************************************************************)
EightDigits(parts) ==
    {i \in 1..Len(parts) : Len(parts[i]) = 8 /\ \A j \in 1..8 : parts[i][j] \in Digits}

StudyNameParsed(name, parts, anchors, r) ==
    /\ DOMAIN r = {"region", "protocol", "timestamp"}
    /\ r.region = parts[1]
    /\ anchors = {} => r.protocol = <<>> /\ r.timestamp = <<>>
    /\ \A d \in anchors :
          (\A j \in anchors : d <= j) => r.protocol = Join(SubSeq(parts, 2, d - 1), "_")
    /\ name = StudyName1 =>
          r = [region |-> <<"L", "-", "S", "P", "I", "N", "E">>,
               protocol |-> <<"L", "S", "S">>,
               timestamp |-> <<"2", "0", "1", "6", "-", "0", "3", "-", "0", "9", "T",
                               "0", "9", ":", "1", "6", ":", "2", "9", ".",
                               "2", "4", "0", "0", "0", "0">>]
    /\ name = StudyName2 =>
          r = [region |-> StudyName2, protocol |-> <<>>, timestamp |-> <<>>]

C17_StudyNameParsed ==
    ret.fn = "parse_study_folder_name" =>
        StudyNameParsed(arg, Split(arg, "_"), EightDigits(Split(arg, "_")), ret.val)

\* a name whose second token has nine digits and whose third is the date
C17_Witness ==
    /\ ret.fn = "parse_study_folder_name"
    /\ arg = <<"L", "_", "2", "0", "1", "6", "0", "3", "0", "9", "1", "_",
               "2", "0", "1", "6", "0", "3", "0", "9">>
    /\ ret.val.region = <<"L">>
    /\ ret.val.protocol = <<"2", "0", "1", "6", "0", "3", "0", "9", "1">>
    /\ ret.val.timestamp # <<>>

(***************************************************************************)
(* C18.  parse_series_folder_name returns for every name: when the name    *)
(* has a "_" and the text after the last "_" is a non-empty run of digits, *)
(* the text before that "_" and the number the run denotes (leading zeros  *)
(* dropped, 0 for zeros only); otherwise the whole name and 0.             *)
(* T2_TSE_TRA_384_0004 gives T2_TSE_TRA_384, 4 and ABC gives ABC, 0.       *)
(***************************************************************************)
DigitsAfter(name, k) ==
    /\ k < Len(name)
    /\ \A j \in (k + 1)..Len(name) : name[j] \in Digits

SeriesNameParsed(name, seps, r) ==
    /\ DOMAIN r = {"desc", "num"}
    /\ \A k \in seps :
          ((\A j \in seps : j <= k) /\ DigitsAfter(name, k)) =>
              /\ r.desc = SubSeq(name, 1, k - 1)
              /\ r.num = IntOf(SubSeq(name, k + 1, Len(name)))
    /\ (\A k \in seps : (\E j \in seps : j > k) \/ ~DigitsAfter(name, k)) =>
          r.desc = name /\ r.num = 0
    /\ name = SeriesName2 =>
          r = [desc |-> <<"T", "2", "_", "T", "S", "E", "_", "T", "R", "A", "_",
                          "3", "8", "4">>,
               num |-> 4]
    /\ name = SeriesName1 => r = [desc |-> <<"A", "B", "C">>, num |-> 0]

C18_SeriesNameParsed ==
    ret.fn = "parse_series_folder_name" =>
        SeriesNameParsed(arg, {i \in 1..Len(arg) : arg[i] = "_"}, ret.val)

\* a name of three tokens, the last of them zeros only
C18_Witness ==
    /\ ret.fn = "parse_series_folder_name"
    /\ arg = <<"T", "2", "_", "0", "0", "0", "4", "_", "0", "0", "0">>
    /\ ret.val = [desc |-> <<"T", "2", "_", "0", "0", "0", "4">>, num |-> 0]

(***************************************************************************)
(* C19.  parse_image_instance_number returns for every file name the       *)
(* number denoted by the last run of digits of the name without its        *)
(* extension (leading zeros dropped, 0 for zeros only), and nothing when   *)
(* that has no digit; the CONTAINS_IMAGE row process_image appends for the *)
(* file has that number as InstanceNumber, 0 when there is none.           *)
(***************************************************************************)
DigitsAt(root) == {i \in 1..Len(root) : root[i] \in Digits}

\* the number of the last run of digits at the positions ds of root, 0 if ds is empty
NumberIn(root, ds) ==
    IF ds = {} THEN 0
    ELSE LET e == CHOOSE i \in ds : \A j \in ds : j <= i
             b == CHOOSE i \in ds :
                      /\ i <= e
                      /\ \A j \in i..e : j \in ds
                      /\ (i - 1) \notin ds
         IN  IntOf(SubSeq(root, b, e))

InstanceParsed(root, ds, r) ==
    /\ DOMAIN r = {"some", "val"}
    /\ r.some = (ds # {})
    /\ r.some => r.val = NumberIn(root, ds)

InstanceCarried(root, ds, rows) ==
    /\ Len(rows) = 1
    /\ Keys(rows[1]) = <<"SeriesId", "ImageId", "InstanceNumber">>
    /\ Get(rows[1], "InstanceNumber", "?") = ToString(NumberIn(root, ds))

C19_InstanceNumber ==
    /\ ret.fn = "parse_image_instance_number" =>
           InstanceParsed(SplitextRoot(arg), DigitsAt(SplitextRoot(arg)), ret.val)
    /\ ret.fn = "process_image" =>
           InstanceCarried(SplitextRoot(arg), DigitsAt(SplitextRoot(arg)),
                           ex.rel_contains_image)

\* L_0570_008.ima: the row of the file carries 8
C19_Witness ==
    /\ ret.fn = "process_image"
    /\ arg = FileName1
    /\ Get(ex.rel_contains_image[1], "InstanceNumber", "?") = "8"

(***************************************************************************)
(* C20.  The columns of Image.csv keep their positions over the flushes:   *)
(* a field written at position k in the line of some row is written at     *)
(* position k in the line of every later row that has the field, and no    *)
(* two different fields are written at the same position, however many     *)
(* flushes bring a new field.  (The cells of one Image row of the model    *)
(* are distinct and not empty, so the position of a field in the line of a *)
(* row is where that line has the row's value of the field.)               *)
(***************************************************************************)
\* the line of Image.csv written for the t-th of the n rows flushed so far
ImageLine(lines, n, t) == lines[Len(lines) - n + t]

WrittenAt(line, row, field, k) ==
    /\ HasKey(row, field)
    /\ k <= Len(line)
    /\ line[k] = Get(row, field, "")

ColumnsStable(rows, lines) ==
    \A t, u \in 1..Len(rows) :
        \A k \in 1..Len(ImageLine(lines, Len(rows), t)) :
            \A i \in 1..Len(rows[t]), j \in 1..Len(rows[u]) :
                (/\ WrittenAt(ImageLine(lines, Len(rows), t), rows[t], rows[t][i][1], k)
                 /\ WrittenAt(ImageLine(lines, Len(rows), u), rows[u], rows[u][j][1], k))
                    => rows[t][i][1] = rows[u][j][1]

ColumnsKept(rows, lines) ==
    \A t, u \in 1..Len(rows) :
        \A k \in 1..Len(ImageLine(lines, Len(rows), t)) :
            \A i \in 1..Len(rows[t]) :
                (/\ t <= u
                 /\ HasKey(rows[u], rows[t][i][1])
                 /\ WrittenAt(ImageLine(lines, Len(rows), t), rows[t], rows[t][i][1], k))
                    => WrittenAt(ImageLine(lines, Len(rows), u), rows[u], rows[t][i][1], k)

C20_ColumnPositionsStable ==
    /\ ColumnsStable(Flatten(written[IMAGE_CSV]), Lines(IMAGE_CSV))
    /\ ColumnsKept(Flatten(written[IMAGE_CSV]), Lines(IMAGE_CSV))

(***************************************************************************)
(* C21.  Valid prefixes: once the first flush of a run is over, no step of *)
(* the run rewrites, removes or reorders a line of Patient.csv, Study.csv, *)
(* Series.csv or of the five relationship files: the lines a file holds    *)
(* before the step are a prefix of those it holds after it, so what an     *)
(* earlier flush wrote is a prefix of what the file holds when the run     *)
(* completes.                                                              *)
(***************************************************************************)
FixedSchemaFiles == BatchFiles \ {IMAGE_CSV}

IsPrefix(a, b) == Len(a) <= Len(b) /\ SubSeq(b, 1, Len(a)) = a

OnlyAppends ==
    (~ex.first_write /\ run' = run) =>
        \A n \in FixedSchemaFiles :
            /\ fs[n].exists => fs'[n].exists
            /\ IsPrefix(fs[n].lines, fs'[n].lines)

C21_ValidPrefixes == [][OnlyAppends]_vars

\* three flushes of one patient each, every one with a study and a series
C21_Witness ==
    /\ pc = "done"
    /\ run = 1
    /\ Len(written[PATIENT_CSV]) = 3
    /\ \A k \in 1..3 : Len(written[STUDY_CSV][k]) >= 1
    /\ Len(Lines(STUDY_CSV)) >= 4
    /\ Len(Lines(REL_HAS_PARAMETERS_CSV)) >= 4

(***************************************************************************)
(* The exporter without batches (src/data_export.py): the same tree, the   *)
(* same mappings and parsers; every row is kept in memory and the eleven   *)
(* files are written once, when the loop over the patient folders is over. *)
(***************************************************************************)
\* DataExporter.__init__ of data_export.py
NewDataExporter(cfg) ==
    [study_id_counter |-> 1,
     series_id_counter |-> 1,
     image_id_counter |-> 1,
     equipment_id_counter |-> 1,
     param_id_counter |-> 1,
     patients |-> <<>>,
     studies |-> <<>>,
     series_list |-> <<>>,
     images |-> <<>>,
     equipment_map |-> <<>>,
     param_map |-> <<>>,
     rel_has_study |-> <<>>,
     rel_contains_series |-> <<>>,
     rel_contains_image |-> <<>>,
     rel_has_parameters |-> <<>>,
     rel_performed_on |-> <<>>,
     clinical_notes |-> _load_clinical_notes(cfg)]

\* str(d) of a registry entry: the first value is an int, the others are str
RECURSIVE DictItems(_, _)
DictItems(d, i) ==
    IF i > Len(d) THEN ""
    ELSE (IF i = 1 THEN "" ELSE ", ")
             \o "'" \o d[i][1] \o "': "
             \o (IF i = 1 THEN d[i][2] ELSE "'" \o d[i][2] \o "'")
             \o DictItems(d, i + 1)

DictStr(d) == "{" \o DictItems(d, 1) \o "}"

\* returns [ex, id]: on a hit the stored entry itself, as the cell csv writes for it
get_or_create_equipment_data_export(e, ds) ==
    LET attrs == extract_attributes(ds, EQUIPMENT_ATTRS)
        eq_hash == generate_hash_id(<<Get(attrs, "Manufacturer", <<>>),
                                      Get(attrs, "ManufacturerModelName", <<>>),
                                      Get(attrs, "SoftwareVersions", <<>>),
                                      Get(attrs, "MagneticFieldStrength", <<>>)>>)
    IN  IF HasKey(e.equipment_map, eq_hash)
        THEN [ex |-> e, id |-> DictStr(Get(e.equipment_map, eq_hash, <<>>))]
        ELSE LET eq_id == e.equipment_id_counter
             IN  [ex |-> [e EXCEPT
                            !.equipment_id_counter = @ + 1,
                            !.equipment_map =
                                Put(@, eq_hash,
                                    << <<"EquipmentId", ToString(eq_id)>> >> \o Cells(attrs))],
                  id |-> ToString(eq_id)]

get_or_create_imaging_params_data_export(e, ds) ==
    LET attrs == extract_attributes(ds, IMAGING_PARAM_ATTRS)
        param_hash == generate_hash_id(Values(attrs))
    IN  IF HasKey(e.param_map, param_hash)
        THEN [ex |-> e, id |-> DictStr(Get(e.param_map, param_hash, <<>>))]
        ELSE LET param_id == e.param_id_counter
             IN  [ex |-> [e EXCEPT
                            !.param_id_counter = @ + 1,
                            !.param_map =
                                Put(@, param_hash,
                                    << <<"ParameterID", ToString(param_id)>> >> \o Cells(attrs))],
                  id |-> ToString(param_id)]

process_image_data_export(e, series_id, file, path) ==
    LET r == read_dicom(file) IN
    IF ~r.ok THEN e
    ELSE LET instance_num == parse_image_instance_number(file.name)
             image_id == e.image_id_counter
             image_record ==
                 Update(<< <<"ImageId", ToString(image_id)>>,
                           <<"FilePath", Str(BASE_URL \o path \o file.name)>> >>,
                        extract_all_image_attributes(r.ds))
         IN  [e EXCEPT
                !.image_id_counter = @ + 1,
                !.images = Append(@, image_record),
                !.rel_contains_image =
                    Append(@, << <<"SeriesId", series_id>>,
                                 <<"ImageId", ToString(image_id)>>,
                                 <<"InstanceNumber",
                                   ToString(IF instance_num.some THEN instance_num.val
                                            ELSE 0)>> >>)]

RECURSIVE ImagesLoopDataExport(_, _, _, _, _)
ImagesLoopDataExport(e, series_id, files, path, i) ==
    IF i > Len(files) THEN e
    ELSE IF IsDir(files[i]) \/ ~EndsWithIma(files[i].name)
         THEN ImagesLoopDataExport(e, series_id, files, path, i + 1)
         ELSE ImagesLoopDataExport(process_image_data_export(e, series_id, files[i], path),
                                   series_id, files, path, i + 1)

process_series_data_export(e, study_id, folder, path) ==
    LET parsed == parse_series_folder_name(folder.name)
        rep_ima == find_first_ima(folder)
        r == read_dicom(rep_ima.file)
    IN
    IF ~rep_ima.found THEN e
    ELSE IF ~r.ok THEN e
    ELSE LET series_attrs == extract_attributes(r.ds, SERIES_ATTRS)
             p == get_or_create_imaging_params_data_export(e, r.ds)
             series_date == Get(series_attrs, "SeriesDate", <<>>)
             series_time == Get(series_attrs, "SeriesTime", <<>>)
             dt == CombineDateTime(series_date, series_time)
             series_datetime == IF series_date # <<>> /\ dt.ok THEN dt.iso ELSE <<>>
             series_id == p.ex.series_id_counter
             series_record ==
                 << <<"SeriesId", ToString(series_id)>>,
                    <<"SeriesInstanceUID", Str(Get(series_attrs, "SeriesInstanceUID", <<>>))>>,
                    <<"SeriesNumber", Str(Get(series_attrs, "SeriesNumber", <<>>))>>,
                    <<"SeriesDatetime", Str(series_datetime)>>,
                    <<"SeriesDescription", Str(Get(series_attrs, "SeriesDescription", <<>>))>>,
                    <<"SeriesType", Str(parsed.desc)>>,
                    <<"Modality", Str(Get(series_attrs, "Modality", <<>>))>>,
                    <<"BodyPartExamined", Str(Get(series_attrs, "BodyPartExamined", <<>>))>> >>
             e1 == [p.ex EXCEPT
                      !.series_id_counter = @ + 1,
                      !.series_list = Append(@, series_record),
                      !.rel_contains_series =
                          Append(@, << <<"StudyId", study_id>>,
                                       <<"SeriesId", ToString(series_id)>>,
                                       <<"SeriesNumber", ToString(parsed.num)>> >>),
                      !.rel_has_parameters =
                          Append(@, << <<"SeriesId", ToString(series_id)>>,
                                       <<"ParameterID", p.id>> >>)]
         IN  ImagesLoopDataExport(e1, ToString(series_id), folder.children,
                                  path \o folder.name \o <<"/">>, 1)

RECURSIVE SeriesLoopDataExport(_, _, _, _, _)
SeriesLoopDataExport(e, study_id, children, path, i) ==
    IF i > Len(children) THEN e
    ELSE IF ~IsDir(children[i])
         THEN SeriesLoopDataExport(e, study_id, children, path, i + 1)
         ELSE SeriesLoopDataExport(process_series_data_export(e, study_id, children[i], path),
                                   study_id, children, path, i + 1)

process_study_data_export(e, patient_id, folder, path) ==
    LET parsed == parse_study_folder_name(folder.name)
        rep_ima == find_first_ima(folder)
        r == read_dicom(rep_ima.file)
    IN
    IF ~rep_ima.found THEN e
    ELSE IF ~r.ok THEN e
    ELSE LET study_attrs == extract_attributes(r.ds, STUDY_ATTRS)
             q == get_or_create_equipment_data_export(e, r.ds)
             study_date == Get(study_attrs, "StudyDate", <<>>)
             study_time == Get(study_attrs, "StudyTime", <<>>)
             dt == CombineDateTime(study_date, study_time)
             study_datetime == IF study_date = <<>> THEN <<>>
                               ELSE IF dt.ok THEN dt.iso ELSE parsed.timestamp
             study_id == q.ex.study_id_counter
             study_record ==
                 << <<"StudyId", ToString(study_id)>>,
                    <<"StudyInstanceUID", Str(Get(study_attrs, "StudyInstanceUID", <<>>))>>,
                    <<"StudyDatetime",
                      Str(IF study_datetime # <<>> THEN study_datetime ELSE parsed.timestamp)>>,
                    <<"StudyDescription", Str(Get(study_attrs, "StudyDescription", <<>>))>>,
                    <<"AccessionNumber", Str(Get(study_attrs, "AccessionNumber", <<>>))>>,
                    <<"InstitutionName", Str(Get(study_attrs, "InstitutionName", <<>>))>>,
                    <<"ReferringPhysician",
                      Str(Get(study_attrs, "ReferringPhysicianName", <<>>))>> >>
             e1 == [q.ex EXCEPT
                      !.study_id_counter = @ + 1,
                      !.studies = Append(@, study_record),
                      !.rel_has_study =
                          Append(@, << <<"PatientId", patient_id>>,
                                       <<"StudyId", ToString(study_id)>> >>),
                      !.rel_performed_on =
                          Append(@, << <<"StudyId", ToString(study_id)>>,
                                       <<"EquipmentId", q.id>> >>)]
         IN  SeriesLoopDataExport(e1, ToString(study_id), folder.children,
                                  path \o folder.name \o <<"/">>, 1)

RECURSIVE StudiesLoopDataExport(_, _, _, _, _)
StudiesLoopDataExport(e, patient_id, children, path, i) ==
    IF i > Len(children) THEN e
    ELSE IF ~IsDir(children[i])
         THEN StudiesLoopDataExport(e, patient_id, children, path, i + 1)
         ELSE StudiesLoopDataExport(process_study_data_export(e, patient_id, children[i], path),
                                    patient_id, children, path, i + 1)

process_patient_data_export(e, folder) ==
    LET patient_id == ToString(IntOf(folder.name))
        first_ima == find_first_ima(folder)
        r == read_dicom(first_ima.file)
        patient_attrs == IF first_ima.found /\ r.ok
                         THEN extract_attributes(r.ds, PATIENT_ATTRS)
                         ELSE <<>>
        patient_record ==
            << <<"PatientId", patient_id>>,
               <<"Age", Str(Get(patient_attrs, "PatientAge", <<>>))>>,
               <<"Sex", Str(Get(patient_attrs, "PatientSex", <<>>))>>,
               <<"Size", Str(Get(patient_attrs, "PatientSize", <<>>))>>,
               <<"Weight", Str(Get(patient_attrs, "PatientWeight", <<>>))>>,
               <<"PatientIdentityRemoved",
                 Str(Get(patient_attrs, "PatientIdentityRemoved", <<>>))>>,
               <<"DeidentificationMethod",
                 Str(Get(patient_attrs, "DeidentificationMethod", <<>>))>>,
               <<"Birthdate", Str(Get(patient_attrs, "PatientBirthDate", <<>>))>>,
               <<"ClinicalNote", Get(e.clinical_notes, patient_id, "")>> >>
        e1 == [e EXCEPT !.patients = Append(@, patient_record)]
    IN  StudiesLoopDataExport(e1, patient_id, folder.children, folder.name \o <<"/">>, 1)

\* _write_csv of data_export.py: mode "w", the header, one line per row
write_csv_data_export(f, filename, data, fieldnames) ==
    IF data = <<>> THEN f
    ELSE [f EXCEPT ![filename] =
             [exists |-> TRUE, lines |-> DictWriterLines(fieldnames, data, TRUE)]]

WriteFixedDataExport(f, filename, data) ==
    IF data = <<>> THEN f ELSE write_csv_data_export(f, filename, data, Keys(data[1]))

write_csv_dynamic_data_export(f, filename, data) ==
    IF data = <<>> THEN f
    ELSE write_csv_data_export(f, filename, data,
             <<"ImageId", "FilePath">>
                 \o DynamicKeys(data, <<"ImageId", "FilePath">>, <<>>))

\* _write_csvs: the eleven writes, in order
write_csvs_data_export(e, f) ==
    LET f1 == WriteFixedDataExport(f, PATIENT_CSV, e.patients)
        f2 == WriteFixedDataExport(f1, STUDY_CSV, e.studies)
        f3 == WriteFixedDataExport(f2, SERIES_CSV, e.series_list)
        f4 == WriteFixedDataExport(f3, EQUIPMENT_CSV, Values(e.equipment_map))
        f5 == WriteFixedDataExport(f4, IMAGING_PARAMS_CSV, Values(e.param_map))
        f6 == write_csv_dynamic_data_export(f5, IMAGE_CSV, e.images)
        f7 == WriteFixedDataExport(f6, REL_HAS_STUDY_CSV, e.rel_has_study)
        f8 == WriteFixedDataExport(f7, REL_CONTAINS_SERIES_CSV, e.rel_contains_series)
        f9 == WriteFixedDataExport(f8, REL_CONTAINS_IMAGE_CSV, e.rel_contains_image)
        f10 == WriteFixedDataExport(f9, REL_HAS_PARAMETERS_CSV, e.rel_has_parameters)
    IN  WriteFixedDataExport(f10, REL_PERFORMED_ON_CSV, e.rel_performed_on)

\* export() of data_export.py; GENERATE_EMBEDDINGS and EXPORT_IMAGES are not
\* settings of this program
InitDataExport ==
    /\ config \in {c \in Configs : ~c.GENERATE_EMBEDDINGS}
    /\ ex = NewDataExporter(config)
    /\ fs = EmptyDir
    /\ pc = "loop"
    /\ tree = <<>>
    /\ idx = 0
    /\ written = [n \in BatchFiles |-> <<>>]
    /\ run = 1
    /\ fs1 = EmptyDir
    /\ arg = <<>>
    /\ ret = NotCalled

\* one iteration of the loop over sorted(os.listdir(BASE_DIR))
ProcessPatientDataExport ==
    /\ pc = "loop"
    /\ Len(tree) < MaxPatients
    /\ \E k \in 1..NumShapes :
          /\ ex' = process_patient_data_export(ex, PatientFolder(idx + 1, k))
          /\ tree' = Append(tree, k)
    /\ idx' = idx + 1
    /\ UNCHANGED <<arg, ret, config, fs, pc, written, run, fs1>>

\* the loop is over: self._write_csvs()
WriteCsvsDataExport ==
    /\ pc = "loop"
    /\ fs' = write_csvs_data_export(ex, fs)
    /\ pc' = "done"
    /\ UNCHANGED <<arg, ret, config, ex, tree, idx, written, run, fs1>>

NextDataExport ==
    \/ ProcessPatientDataExport
    \/ WriteCsvsDataExport

SpecDataExport == InitDataExport /\ [][NextDataExport]_vars

(***************************************************************************)
(* C22.  In the exporter without batches every PERFORMED_ON row carries as *)
(* EquipmentId, and every HAS_PARAMETERS row as ParameterID, the integer   *)
(* ID of a registry entry (the registry methods return the integer on a    *)
(* hit as on a creation), and the rows of two studies (series) with the    *)
(* same combination carry the same value.                                  *)
(***************************************************************************)
IdCells(counter) == {ToString(k) : k \in 1..(counter - 1)}

IntegerIds(rows, key, counter) ==
    \A i \in 1..Len(rows) : Get(rows[i], key, "") \in IdCells(counter)

\* the Equipment fields that enter the digest, of the study folder's representative
EquipmentCombination(s) ==
    [i \in 1..4 |-> get_dicom_attr(RepOf(s.folder), EQUIPMENT_ATTRS[i])]

ParameterCombination(s) ==
    [i \in 1..Len(IMAGING_PARAM_ATTRS) |->
        get_dicom_attr(RepOf(s.folder), IMAGING_PARAM_ATTRS[i])]

SameCombinationSameId(folders, rows, key, combination(_)) ==
    /\ Len(rows) = Len(folders)
    /\ \A i, j \in 1..Len(rows) :
          combination(folders[i]) = combination(folders[j]) =>
              Get(rows[i], key, "") = Get(rows[j], key, "")

C22_IntegerIdReturned ==
    /\ IntegerIds(ex.rel_performed_on, "EquipmentId", ex.equipment_id_counter)
    /\ IntegerIds(ex.rel_has_parameters, "ParameterID", ex.param_id_counter)
    /\ SameCombinationSameId(TakenStudies, ex.rel_performed_on, "EquipmentId",
                             EquipmentCombination)
    /\ SameCombinationSameId(TakenSeries, ex.rel_has_parameters, "ParameterID",
                             ParameterCombination)

(***************************************************************************)
(* process_study and process_series called on their own, on a folder whose *)
(* representative header has a given date and time: the dates and times    *)
(* include empty ones and ones strptime does not accept.                   *)
(***************************************************************************)
StampNames ==
    {StudyName1, StudyName2,
     <<"L", "_", "2", "0", "1", "6", "0", "3", "0", "9">>,
     <<"L", "_", "2", "0", "1", "6", "1", "3", "4", "0", "_", "0", "9">>}

StampDates ==
    { <<>>,
      <<"2", "0", "1", "7", "0", "5", "0", "2">>,
      <<"2", "0", "1", "7", "1", "3", "4", "0">>,
      <<"2", "0", "1", "7", "0", "2", "3", "0">>,
      <<"2", "0", "1", "7">> }

StampTimes ==
    { <<>>,
      <<"1", "0", "2", "0", "3", "0", ".", "5", "0", "0", "0", "0", "0">>,
      <<"1", "0", "2", "0", "3", "0">>,
      <<"1", "0", "2", "0">>,
      <<"2", "5", "0", "0", "0", "0">> }

\* a header with the date and time, as the study's and as the series's
StampHeader(date, time) ==
    << <<"StudyDate", date>>, <<"StudyTime", time>>,
       <<"SeriesDate", date>>, <<"SeriesTime", time>> >>

StampSeries(a) ==
    Dir(SeriesName1, <<File(FileName1, TRUE, StampHeader(a.date, a.time))>>, 1)

StampStudy(a) == Dir(a.name, <<StampSeries(a)>>, 1)

InitStamp ==
    /\ config \in Configs
    /\ ex = NewExporter(config, 1)
    /\ fs = EmptyDir
    /\ pc = "call"
    /\ tree = <<>>
    /\ idx = 0
    /\ written = [n \in BatchFiles |-> <<>>]
    /\ run = 1
    /\ fs1 = EmptyDir
    /\ arg \in [name : StampNames, date : StampDates, time : StampTimes]
    /\ ret = NotCalled

\* process_study("1", name, path) on a new exporter
CallProcessStudy ==
    /\ pc = "call"
    /\ ex' = process_study(ex, config, "1", StampStudy(arg), <<"0", "0", "0", "1", "/">>)
    /\ ret' = [fn |-> "process_study", val |-> <<>>]
    /\ pc' = "returned"
    /\ UNCHANGED <<arg, config, fs, tree, idx, written, run, fs1>>

\* process_series("1", name, path) on a new exporter
CallProcessSeries ==
    /\ pc = "call"
    /\ ex' = process_series(ex, config, "1", StampSeries(arg),
                            <<"0", "0", "0", "1", "/">> \o arg.name \o <<"/">>)
    /\ ret' = [fn |-> "process_series", val |-> <<>>]
    /\ pc' = "returned"
    /\ UNCHANGED <<arg, config, fs, tree, idx, written, run, fs1>>

NextStamp ==
    \/ CallProcessStudy
    \/ CallProcessSeries

SpecStamp == InitStamp /\ [][NextStamp]_vars

(***************************************************************************)
(* C23.  The StudyDatetime of a Study row is the timestamp built from the  *)
(* header's StudyDate and StudyTime when the date is there and the two     *)
(* parse, otherwise the timestamp parsed from the study folder's name; the *)
(* SeriesDatetime of a Series row is the timestamp built from SeriesDate   *)
(* and SeriesTime when the date is there and the two parse, otherwise the  *)
(* empty string, whatever the folder names hold.                           *)
(***************************************************************************)
\* the date followed by the time up to its first ".", cut to 14 characters, read
\* as date and time when it has 14 characters and as a date otherwise
BuiltStamp(date, time) ==
    LET t == IF \E i \in 1..Len(time) : time[i] = "."
             THEN SubSeq(time, 1, (CHOOSE i \in 1..Len(time) :
                                      time[i] = "." /\ \A j \in 1..(i - 1) : time[j] # ".") - 1)
             ELSE time
        s == date \o t
        cut == SubSeq(s, 1, IF Len(s) < 14 THEN Len(s) ELSE 14)
    IN  IF date = <<>> THEN [ok |-> FALSE, iso |-> <<>>]
        ELSE strptime_iso(cut, IF Len(s) >= 14 THEN FmtSeconds ELSE FmtDate)

StudyStamped(a, built, rows) ==
    /\ Len(rows) = 1
    /\ Get(rows[1], "StudyDatetime", "?")
           = Str(IF built.ok THEN built.iso ELSE parse_study_folder_name(a.name).timestamp)

SeriesStamped(built, rows) ==
    /\ Len(rows) = 1
    /\ Get(rows[1], "SeriesDatetime", "?") = Str(IF built.ok THEN built.iso ELSE <<>>)

C23_TimestampFallback ==
    /\ ret.fn = "process_study" =>
           /\ StudyStamped(arg, BuiltStamp(arg.date, arg.time), ex.studies)
           /\ SeriesStamped(BuiltStamp(arg.date, arg.time), ex.series_list)
    /\ ret.fn = "process_series" =>
           SeriesStamped(BuiltStamp(arg.date, arg.time), ex.series_list)

\* a date with month 13: the study takes the stamp of its folder name, the series none
C23_Witness ==
    /\ ret.fn = "process_study"
    /\ arg.name = StudyName1
    /\ arg.date = <<"2", "0", "1", "7", "1", "3", "4", "0">>
    /\ Get(ex.studies[1], "StudyDatetime", "?") = "2016-03-09T09:16:29.240000"
    /\ Get(ex.series_list[1], "SeriesDatetime", "?") = ""

(***************************************************************************)
(* C24.  The column list of a flush of Image rows.  As first stated: the   *)
(* list every flush uses is the fixed prefix (ImageId, EmbeddingVector     *)
(* when embeddings are enabled, FilePath) followed by the other keys of    *)
(* the rows of the batch, each once, in the order of their first           *)
(* occurrence (rows in order, the keys of a row in order), and a row has   *)
(* the empty string where it lacks a column.  As it holds: that is the     *)
(* list computed for the batch, and the list of the flush that creates     *)
(* Image.csv; a later flush uses the first line of Image.csv followed by   *)
(* the columns of the batch's list that this line does not hold.           *)
(***************************************************************************)
\* where key k occurs first in the rows of batch: row and place in the row
FirstSeen(batch, k) ==
    CHOOSE p \in UNION {{<<r, c>> : c \in 1..Len(batch[r])} : r \in 1..Len(batch)} :
        /\ batch[p[1]][p[2]][1] = k
        /\ \A r \in 1..p[1] : \A c \in 1..Len(batch[r]) :
              (batch[r][c][1] = k) => (r = p[1] /\ c >= p[2])

Earlier(p, q) == p[1] < q[1] \/ (p[1] = q[1] /\ p[2] < q[2])

BatchKeys(batch) == UNION {Range(Keys(batch[r])) : r \in 1..Len(batch)}

FirstSeenOrder(cols, fixed, batch) ==
    /\ Len(cols) >= Len(fixed)
    /\ SubSeq(cols, 1, Len(fixed)) = fixed
    /\ \A i, j \in 1..Len(cols) : i # j => cols[i] # cols[j]
    /\ Range(cols) = Range(fixed) \cup BatchKeys(batch)
    /\ \A i, j \in (Len(fixed) + 1)..Len(cols) :
          i < j => Earlier(FirstSeen(batch, cols[i]), FirstSeen(batch, cols[j]))

\* the rows of the flushes before the k-th
RowsBefore(flushes, k) == Len(Flatten(SubSeq(flushes, 1, k - 1)))

\* the lines of the k-th flush are its rows under the columns used
WrittenUnder(used, batch, before, lines, n) ==
    \A t \in 1..Len(batch) :
        ImageLine(lines, n, before + t)
            = [j \in 1..Len(used) |-> Get(batch[t], used[j], "")]

\* the columns a flush uses that finds the first line `first` in the file
MergedWith(first, cols) == first \o SelectSeq(cols, LAMBDA c : ~InSeq(c, first))

FlushColumns(flushes, lines, n, fixed) ==
    \A k \in 1..Len(flushes) :
        flushes[k] # <<>> =>
            /\ FirstSeenOrder(fixed \o DynamicKeys(flushes[k], fixed, <<>>), fixed, flushes[k])
            /\ WrittenUnder(IF RowsBefore(flushes, k) = 0
                            THEN fixed \o DynamicKeys(flushes[k], fixed, <<>>)
                            ELSE MergedWith(lines[1],
                                            fixed \o DynamicKeys(flushes[k], fixed, <<>>)),
                            flushes[k], RowsBefore(flushes, k), lines, n)

FlushColumnsOfBatch(flushes, lines, n, fixed) ==
    \A k \in 1..Len(flushes) :
        flushes[k] # <<>> =>
            /\ FirstSeenOrder(fixed \o DynamicKeys(flushes[k], fixed, <<>>), fixed, flushes[k])
            /\ WrittenUnder(fixed \o DynamicKeys(flushes[k], fixed, <<>>),
                            flushes[k], RowsBefore(flushes, k), lines, n)

C24_BatchColumnsEveryFlush ==
    FlushColumnsOfBatch(written[IMAGE_CSV], Lines(IMAGE_CSV),
                        Len(Flatten(written[IMAGE_CSV])), FixedKeys)

C24_BatchColumnsMerged ==
    FlushColumns(written[IMAGE_CSV], Lines(IMAGE_CSV),
                 Len(Flatten(written[IMAGE_CSV])), FixedKeys)

\* batch size 2: a first flush of an image with B and one with A, then a flush
\* of one image with A and C
C24_Witness ==
    /\ pc = "done"
    /\ tree = <<3, 2, 4>>
    /\ Len(written[IMAGE_CSV]) = 2
    /\ Len(written[IMAGE_CSV][1]) = 2
    /\ Len(written[IMAGE_CSV][2]) = 1
    /\ Len(Lines(IMAGE_CSV)) = 4

(***************************************************************************)
(* C25.  FilePath of an image row: for a file that process_image is given  *)
(* by process_series (name ending in .ima, in any case of the letters),    *)
(* FilePath is BASE_URL followed by the path of the file relative to       *)
(* BASE_DIR; when image export is enabled the extension alone is replaced  *)
(* by IMAGE_FORMAT and the rest of the path is as it was.                  *)
(***************************************************************************)
\* name with its last three characters, the extension, replaced
WithExtension(name, format) == SubSeq(name, 1, Len(name) - 3) \o format

FilePathOf(cfg, dir, name) ==
    Str(BASE_URL \o dir \o (IF cfg.EXPORT_IMAGES THEN WithExtension(name, IMAGE_FORMAT)
                            ELSE name))

C25_FilePath ==
    (ret.fn = "process_image" /\ EndsWithIma(arg)) =>
        /\ Len(ex.images) = 1
        /\ Get(ex.images[1], "FilePath", "?")
               = FilePathOf(config, <<"0", "0", "0", "1", "/">>, arg)

(***************************************************************************)
(* export() over patient folders that hold several studies, several series *)
(* in a study and several images in a series.                              *)
(***************************************************************************)
SeriesName3 == <<"X", "_", "0", "0", "0", "7">>
StudyName3 == <<"Z", "_", "2", "0", "1", "6", "0", "3", "1", "0", "_", "1", "0", "0", "0", "0", "0">>

TwoImages == <<File(FileName1, TRUE, dsA), File(FileName2, TRUE, dsB)>>

\* the contents of a patient folder: [children, first]
NestShapes ==
    << \* 1: two studies; two series of two images, then one series of one image
       [children |-> <<Dir(StudyName1, <<Dir(SeriesName1, TwoImages, 1),
                                         Dir(SeriesName2, TwoImages, 1)>>, 1),
                       Dir(StudyName3, <<Dir(SeriesName1,
                                             <<File(FileName1, TRUE, dsC)>>, 1)>>, 1)>>,
        first |-> 1],
       \* 2: one study; a series of two images, a skipped series, a series of one image
       [children |-> <<Dir(StudyName1,
                           <<Dir(SeriesName1, TwoImages, 1),
                             Dir(SeriesName2, <<File(FileName1, FALSE, <<>>)>>, 1),
                             Dir(SeriesName3, <<File(FileName1, TRUE, dsA)>>, 1)>>, 1)>>,
        first |-> 1],
       \* 3: a skipped study, then a study of one series of two images
       [children |-> <<Dir(StudyName1, <<>>, 0),
                       Dir(StudyName3, <<Dir(SeriesName1, TwoImages, 2)>>, 1)>>,
        first |-> 2],
       \* 4: one study, one series, one image
       PatientShapes[2],
       \* 5: an empty patient folder
       PatientShapes[1] >>

NestFolder(i, k) ==
    Dir(PatientFolderName(i), NestShapes[k].children, NestShapes[k].first)

\* one iteration of the loop of export() up to the batch test; tree lists the
\* positions in NestShapes
ProcessPatientNest ==
    /\ pc = "loop"
    /\ Len(tree) < MaxPatients
    /\ \E k \in 1..Len(NestShapes) :
          /\ ex' = [process_patient(ex, config, NestFolder(idx + 1, k))
                       EXCEPT !.patient_count = @ + 1]
          /\ tree' = Append(tree, k)
    /\ idx' = idx + 1
    /\ pc' = "batch"
    /\ UNCHANGED <<arg, ret, config, fs, written, run, fs1>>

NextNest ==
    \/ ProcessPatientNest
    \/ WriteBatchFull
    \/ BatchNotFull
    \/ LoopEnd
    \/ WriteRemaining
    \/ NoRemaining
    \/ Finalize

SpecNest == Init /\ [][NextNest]_vars

(***************************************************************************)
(* C26.  Depth-first nesting of the IDs, after any number of               *)
(* process_patient calls: the SeriesIds that CONTAINS_SERIES puts under    *)
(* one StudyId are consecutive integers, and for StudyIds a < b every      *)
(* SeriesId under a is smaller than every SeriesId under b; the same for   *)
(* the ImageIds under the SeriesIds of CONTAINS_IMAGE; and in HAS_STUDY    *)
(* the StudyIds of a patient are consecutive and those of a patient        *)
(* processed earlier are smaller than those of a patient processed later.  *)
(***************************************************************************)
\* the integers the cells of a column stand for, each below counter
IdsOf(cells, counter) ==
    [i \in 1..Len(cells) |-> CHOOSE n \in 0..counter : ToString(n) = cells[i]]

\* the position of each cell in the list order
PositionsIn(cells, order) ==
    [i \in 1..Len(cells) |-> CHOOSE p \in 1..Len(order) : order[p] = cells[i]]

\* parent[i] is the parent of child[i]
Nested(parent, child) ==
    /\ Len(parent) = Len(child)
    /\ \A i, j \in 1..Len(child) :
          /\ (parent[i] = parent[j] /\ child[i] < child[j]) =>
                 \A c \in child[i]..child[j] :
                     \E m \in 1..Len(child) : child[m] = c /\ parent[m] = parent[i]
          /\ parent[i] < parent[j] => child[i] < child[j]

C26_DepthFirstNesting ==
    /\ Nested(IdsOf(Column(AllRows(REL_CONTAINS_SERIES_CSV), "StudyId"), ex.study_id_counter),
              IdsOf(Column(AllRows(REL_CONTAINS_SERIES_CSV), "SeriesId"), ex.series_id_counter))
    /\ Nested(IdsOf(Column(AllRows(REL_CONTAINS_IMAGE_CSV), "SeriesId"), ex.series_id_counter),
              IdsOf(Column(AllRows(REL_CONTAINS_IMAGE_CSV), "ImageId"), ex.image_id_counter))
    /\ Nested(PositionsIn(Column(AllRows(REL_HAS_STUDY_CSV), "PatientId"),
                          Column(AllRows(PATIENT_CSV), "PatientId")),
              IdsOf(Column(AllRows(REL_HAS_STUDY_CSV), "StudyId"), ex.study_id_counter))

\* three patients of shape 1, 2, 1: seven series under five studies, twelve images
C26_Witness ==
    /\ tree = <<1, 2, 1>>
    /\ pc = "batch"
    /\ ex.study_id_counter = 6
    /\ ex.series_id_counter = 9
    /\ ex.image_id_counter = 14
    /\ Len(AllRows(REL_CONTAINS_IMAGE_CSV)) = 13

(***************************************************************************)
(* C27.  Registry density: in every reachable state equipment_id_counter   *)
(* is the number of entries of equipment_map plus 1, the entries have      *)
(* distinct keys, and the EquipmentId stored in the i-th entry (in         *)
(* insertion order) is i, so the stored ids are 1..len(equipment_map),     *)
(* each once, in increasing order; the same for param_id_counter,          *)
(* param_map and ParameterID.                                              *)
(***************************************************************************)
Dense(map, key, counter) ==
    /\ counter = Len(map) + 1
    /\ \A i, j \in 1..Len(map) : i # j => map[i][1] # map[j][1]
    /\ \A i \in 1..Len(map) : Get(map[i][2], key, "?") = ToString(i)

C27_RegistryDensity ==
    /\ Dense(ex.equipment_map, "EquipmentId", ex.equipment_id_counter)
    /\ Dense(ex.param_map, "ParameterID", ex.param_id_counter)

\* two entries in each registry, the third patient a hit in both, after the flushes
C27_Witness ==
    /\ pc = "done"
    /\ tree = <<2, 4, 2>>
    /\ Len(ex.equipment_map) = 2
    /\ Len(ex.param_map) = 2
    /\ Len(AllRows(REL_HAS_PARAMETERS_CSV)) = 3

(***************************************************************************)
(* process_study and process_series called on their own, once, on an       *)
(* exporter that has processed any number of patient folders.              *)
(***************************************************************************)
Unreadable1 == File(FileName1, FALSE, <<>>)

\* study folders: without a file; with an unreadable file only; with an unreadable
\* representative file and a readable file in a second series; a readable one
FrameStudies ==
    { Dir(StudyName1, <<>>, 0),
      Study1(StudyName1, <<Unreadable1>>, 1),
      Dir(StudyName1, <<Dir(SeriesName1, <<Unreadable1>>, 1),
                        Dir(SeriesName2, <<File(FileName1, TRUE, dsA)>>, 1)>>, 1),
      Study1(StudyName2, <<File(FileName1, TRUE, dsC)>>, 1) }

\* series folders: without a file; with an unreadable file only; with an unreadable
\* representative file and a readable second file; a readable one
FrameSeries ==
    { Dir(SeriesName1, <<>>, 0),
      Dir(SeriesName1, <<Unreadable1>>, 1),
      Dir(SeriesName1, <<Unreadable1, File(FileName2, TRUE, dsB)>>, 1),
      Dir(SeriesName2, <<File(FileName1, TRUE, dsC)>>, 1) }

\* process_study("9", folder, path) between two iterations of the loop of export()
CallProcessStudyOn ==
    /\ pc = "loop"
    /\ ret = NotCalled
    /\ \E f \in FrameStudies :
          /\ ex' = process_study(ex, config, "9", f, <<"0", "0", "0", "9", "/">>)
          /\ arg' = f
    /\ ret' = [fn |-> "process_study", val |-> <<>>]
    /\ UNCHANGED <<pc, config, fs, tree, idx, written, run, fs1>>

\* process_series("9", folder, path) between two iterations of the loop of export()
CallProcessSeriesOn ==
    /\ pc = "loop"
    /\ ret = NotCalled
    /\ \E f \in FrameSeries :
          /\ ex' = process_series(ex, config, "9", f,
                                  <<"0", "0", "0", "9", "/">> \o StudyName1 \o <<"/">>)
          /\ arg' = f
    /\ ret' = [fn |-> "process_series", val |-> <<>>]
    /\ UNCHANGED <<pc, config, fs, tree, idx, written, run, fs1>>

NextFrame ==
    \/ ProcessPatientNest
    \/ WriteBatchFull
    \/ BatchNotFull
    \/ LoopEnd
    \/ WriteRemaining
    \/ NoRemaining
    \/ Finalize
    \/ CallProcessStudyOn
    \/ CallProcessSeriesOn

SpecFrame == Init /\ [][NextFrame]_vars

(***************************************************************************)
(* C28.  A skipped study or series changes no exporter state: when         *)
(* process_study or process_series is called on a folder that has no .ima  *)
(* file, or whose representative file cannot be read, the five ID          *)
(* counters, equipment_map, param_map and every batch list are after the   *)
(* call what they were before it.                                          *)
(***************************************************************************)
\* the folder has no readable representative file
Skipped(folder) ==
    \/ ~HasIma(folder)
    \/ ~find_first_ima(folder).file.ok

Counters(e) ==
    <<e.study_id_counter, e.series_id_counter, e.image_id_counter,
      e.equipment_id_counter, e.param_id_counter>>

SameState(e1, e2) ==
    /\ Counters(e1) = Counters(e2)
    /\ e1.equipment_map = e2.equipment_map
    /\ e1.param_map = e2.param_map
    /\ BatchOf(e1) = BatchOf(e2)

\* the step is the return of a call on its own
Called == ret = NotCalled /\ ret' # NotCalled

SkipChangesNothing == (Called /\ Skipped(arg')) => SameState(ex, ex')

C28_SkipChangesNothing == [][SkipChangesNothing]_vars

\* a skipped series folder that holds a readable file, on an exporter with rows in
\* its batch lists and entries in its registries
C28_Witness ==
    /\ ret.fn = "process_series"
    /\ arg = Dir(SeriesName1, <<Unreadable1, File(FileName2, TRUE, dsB)>>, 1)
    /\ pc = "loop"
    /\ ex.patient_count = 1
    /\ ex.series_id_counter = 4
    /\ Len(ex.images) = 5
    /\ Len(ex.param_map) >= 1

(***************************************************************************)
(* export() over a BASE_DIR whose folder names are any few of FolderNames: *)
(* the listing is filtered by re.fullmatch(r"\d+", f) and sorted.          *)
(***************************************************************************)
FolderNames ==
    { <<"1">>, <<"0", "1">>, <<"0", "0", "0", "1">>, <<"2">>, <<"0", "0", "2">>,
      <<"1", "0">>, <<"x", "1">>, <<"1", "2", "a">> }

\* re.fullmatch(r"\d+", f)
IsPatientFolderName(f) == f # <<>> /\ \A i \in 1..Len(f) : f[i] \in Digits

Alphabet == <<"0", "1", "2", "3", "4", "5", "6", "7", "8", "9", "a", "x">>

Rank(c) == CHOOSE i \in 1..Len(Alphabet) : Alphabet[i] = c

\* a < b for str
StrLess(a, b) ==
    \E k \in 1..(Len(b)) :
        /\ \A i \in 1..(k - 1) : i <= Len(a) /\ a[i] = b[i]
        /\ (k > Len(a) \/ Rank(a[k]) < Rank(b[k]))

\* sorted(S) for a set of different names
SortedNames(S) ==
    CHOOSE s \in [1..Cardinality(S) -> S] :
        \A i, j \in 1..Cardinality(S) : i < j => StrLess(s[i], s[j])

\* tree is patient_folders: the accepted names of the listing, sorted
InitNames ==
    /\ config \in Configs
    /\ \E b \in 1..MaxBatchSize : ex = NewExporter(config, b)
    /\ fs = EmptyDir
    /\ pc = "loop"
    /\ \E S \in SUBSET FolderNames :
          /\ Cardinality({f \in S : IsPatientFolderName(f)}) <= MaxPatients
          /\ tree = SortedNames({f \in S : IsPatientFolderName(f)})
    /\ idx = 0
    /\ written = [n \in BatchFiles |-> <<>>]
    /\ run = 1
    /\ fs1 = EmptyDir
    /\ arg = <<>>
    /\ ret = NotCalled

\* one iteration of the loop of export() up to the batch test; every patient folder
\* holds one study of one series of one image
ProcessPatientNamed ==
    /\ pc = "loop"
    /\ idx < Len(tree)
    /\ ex' = [process_patient(ex, config,
                              Dir(tree[idx + 1], PatientShapes[2].children,
                                  PatientShapes[2].first))
                 EXCEPT !.patient_count = @ + 1]
    /\ idx' = idx + 1
    /\ pc' = "batch"
    /\ UNCHANGED <<arg, ret, config, fs, tree, written, run, fs1>>

\* the loop over patient_folders is over
LoopEndNamed ==
    /\ pc = "loop"
    /\ idx = Len(tree)
    /\ pc' = "rest"
    /\ UNCHANGED <<arg, ret, config, ex, fs, tree, idx, written, run, fs1>>

NextNames ==
    \/ ProcessPatientNamed
    \/ WriteBatchFull
    \/ BatchNotFull
    \/ LoopEndNamed
    \/ WriteRemaining
    \/ NoRemaining
    \/ Finalize

SpecNames == InitNames /\ [][NextNames]_vars

(***************************************************************************)
(* C29.  The PatientId values of the Patient rows are pairwise distinct:   *)
(* two different all-digit patient folders never give Patient rows with    *)
(* the same PatientId, and the PatientId of every HAS_STUDY row is that of *)
(* exactly one Patient row.                                                *)
(***************************************************************************)
Distinct(cells) == \A i, j \in 1..Len(cells) : i # j => cells[i] # cells[j]

OnePatientEach(refs, ids) ==
    \A r \in 1..Len(refs) : Cardinality({i \in 1..Len(ids) : ids[i] = refs[r]}) = 1

C29_PatientIdsDistinct ==
    /\ Distinct(Column(AllRows(PATIENT_CSV), "PatientId"))
    /\ OnePatientEach(Column(AllRows(REL_HAS_STUDY_CSV), "PatientId"),
                      Column(AllRows(PATIENT_CSV), "PatientId"))

(***************************************************************************)
(* C30.  Whatever the output directory held before a run, after a          *)
(* completed run every file that received rows in the run holds the header *)
(* and the rows of that run only: at most one line more than the run       *)
(* wrote rows to it, and below the first line only the lines of these      *)
(* rows.                                                                   *)
(***************************************************************************)
\* how many rows the run has written to file n
RowsOfRun(n) ==
    IF n \in BatchFiles THEN Len(Flatten(written[n]))
    ELSE IF n = EQUIPMENT_CSV THEN Len(ex.equipment_map)
    ELSE Len(ex.param_map)

OwnRowsOnly(lines, rows) == rows > 0 => Len(lines) <= rows + 1

C30_RunOwnsItsFiles ==
    pc = "done" => \A n \in OutFiles : OwnRowsOnly(Lines(n), RowsOfRun(n))

====
